---- MODULE Spec2Model ----
(***************************************************************************)
(* Model of the scoring and ranking engine of the job agent                *)
(* (src/src/scorer.py).  Strings are TLA+ strings (sequences of            *)
(* characters); scores are integers counting hundredths, so 0.40 is 40.    *)
(***************************************************************************)
EXTENDS Integers, Sequences, FiniteSets, TLC

VARIABLES job, profile, sj, jobs, min_score, scored, ranked, pc

\* get_sources (src/src/sources/__init__.py)
VARIABLES environ, src_profile, sources, src_pc

\* run, search and merge (src/src/agent.py)
VARIABLES worker, yielded, all_jobs, seen, mock_invoked, max_jobs, applied_ids,
          new_jobs, result, run_pc

\* search of one source adapter (src/src/sources/*.py) with its retried fetches
VARIABLES adapter, adapter_profile, search_query, search_locations, search_limit,
          plan, req, attempt, sleeps, first_kind, last_req, search_jobs, returned_jobs,
          search_pc

\* record_application and update_status (src/src/tracker.py) in concurrent processes
VARIABLES file, flock, proc

\* whole runs of the agent, one after the other (src/src/agent.py)
VARIABLES data, tracker, reports, succeeded, run

\* one call of a function wrapped by retry (src/src/retry.py)
VARIABLES retry_args, wrapper

scorerVars == <<job, profile, sj, jobs, min_score, scored, ranked, pc>>

registryVars == <<environ, src_profile, sources, src_pc>>

runVars == <<worker, yielded, all_jobs, seen, mock_invoked, max_jobs, applied_ids,
             new_jobs, result, run_pc>>

searchVars == <<adapter, adapter_profile, search_query, search_locations, search_limit,
                plan, req, attempt, sleeps, first_kind, last_req, search_jobs,
                returned_jobs, search_pc>>

trackerVars == <<file, flock, proc>>

agentVars == <<data, tracker, reports, succeeded, run>>

retryVars == <<retry_args, wrapper>>

\* What each component leaves alone (run uses the registry's variables).
notScorerVars == <<registryVars, runVars, searchVars, trackerVars, agentVars, retryVars>>

notRegistryVars == <<scorerVars, runVars, searchVars, trackerVars, agentVars, retryVars>>

notRunVars == <<scorerVars, searchVars, trackerVars, agentVars, retryVars>>

notSearchVars == <<scorerVars, registryVars, runVars, trackerVars, agentVars, retryVars>>

notTrackerVars == <<scorerVars, registryVars, runVars, searchVars, agentVars, retryVars>>

notAgentVars == <<scorerVars, registryVars, runVars, searchVars, trackerVars, retryVars>>

notRetryVars == <<scorerVars, registryVars, runVars, searchVars, trackerVars, agentVars>>

vars == <<scorerVars, registryVars, runVars, searchVars, trackerVars, agentVars, retryVars>>

\* The variables of a component that is not running keep these values.
RegistryIdle ==
    /\ environ = <<>>
    /\ src_profile = <<>>
    /\ sources = <<>>
    /\ src_pc = "idle"

RunIdle ==
    /\ worker = <<>>
    /\ yielded = {}
    /\ all_jobs = <<>>
    /\ seen = {}
    /\ mock_invoked = FALSE
    /\ max_jobs = 0
    /\ applied_ids = {}
    /\ new_jobs = <<>>
    /\ result = <<>>
    /\ run_pc = "idle"

SearchIdle ==
    /\ adapter = ""
    /\ adapter_profile = <<>>
    /\ search_query = ""
    /\ search_locations = <<>>
    /\ search_limit = 0
    /\ plan = <<>>
    /\ req = 0
    /\ attempt = 0
    /\ sleeps = 0
    /\ first_kind = ""
    /\ last_req = <<>>
    /\ search_jobs = <<>>
    /\ returned_jobs = <<>>
    /\ search_pc = "idle"

TrackerIdle ==
    /\ file = <<>>
    /\ flock = <<>>
    /\ proc = <<>>

AgentIdle ==
    /\ data = <<>>
    /\ tracker = <<>>
    /\ reports = 0
    /\ succeeded = {}
    /\ run = <<>>

RetryIdle ==
    /\ retry_args = <<>>
    /\ wrapper = <<>>

OthersIdleForScorer ==
    RegistryIdle /\ RunIdle /\ SearchIdle /\ TrackerIdle /\ AgentIdle /\ RetryIdle

(***************************************************************************)
(* Python values and string primitives                                     *)
(***************************************************************************)

\* Python's None where a str is expected: a value no pool string equals.
None == "<None>"

\* None where a number is expected (salary_cfg.get("min") of an absent key).
NoneInt == -1

\* s[i], the i-th character (1-based) as a one-character string.
Char(s, i) == SubSeq(s, i, i)

\* Python `sub in text` for two str values.
Contains(text, sub) ==
    \E i \in 1..(Len(text) - Len(sub) + 1) : SubSeq(text, i, i + Len(sub) - 1) = sub

UpperChars == "ABCDEFGHIJKLMNOPQRSTUVWXYZ"
LowerChars == "abcdefghijklmnopqrstuvwxyz"
DigitChars == "0123456789"

CharsOf(s) == {Char(s, i) : i \in 1..Len(s)}

UpperSet == CharsOf(UpperChars)
LowerSet == CharsOf(LowerChars)
DigitSet == CharsOf(DigitChars)

Whitespace == {" ", "\t", "\n", "\r"}

\* The lower-case letter of each upper-case letter.
LowerOf == [c \in UpperSet |->
               Char(LowerChars, CHOOSE k \in 1..Len(UpperChars) : Char(UpperChars, k) = c)]

LowerChar(c) == IF c \in UpperSet THEN LowerOf[c] ELSE c

\* str.lower()
RECURSIVE Lower(_)
Lower(s) == IF s = "" THEN "" ELSE LowerChar(Char(s, 1)) \o Lower(SubSeq(s, 2, Len(s)))

\* str.strip()
RECURSIVE LStrip(_)
LStrip(s) ==
    IF s # "" /\ Char(s, 1) \in Whitespace THEN LStrip(SubSeq(s, 2, Len(s))) ELSE s

RECURSIVE RStrip(_)
RStrip(s) ==
    IF s # "" /\ Char(s, Len(s)) \in Whitespace THEN RStrip(SubSeq(s, 1, Len(s) - 1)) ELSE s

Strip(s) == LStrip(RStrip(s))

\* str.split(): the whitespace-separated words, as the set the callers build.
RECURSIVE SplitFrom(_, _, _)
SplitFrom(s, i, word) ==
    IF i > Len(s)
    THEN (IF word = "" THEN {} ELSE {word})
    ELSE IF Char(s, i) \in Whitespace
         THEN (IF word = "" THEN {} ELSE {word}) \cup SplitFrom(s, i + 1, "")
         ELSE SplitFrom(s, i + 1, word \o Char(s, i))

SplitWords(s) == SplitFrom(s, 1, "")

\* list(dict.fromkeys(xs)): drop repeats, keep first occurrences in order.
RECURSIVE DictFromKeys(_)
DictFromKeys(xs) ==
    IF xs = <<>> THEN <<>>
    ELSE LET init == DictFromKeys(SubSeq(xs, 1, Len(xs) - 1))
             last == xs[Len(xs)]
         IN  IF \E k \in 1..Len(init) : init[k] = last THEN init ELSE Append(init, last)

\* any(x in text for x in xs)
AnyIn(xs, text) == \E k \in 1..Len(xs) : Contains(text, xs[k])

Min(a, b) == IF a <= b THEN a ELSE b

(***************************************************************************)
(* scorer.py: constants                                                    *)
(***************************************************************************)

_normalize(s) == Strip(Lower(IF s = None THEN "" ELSE s))

LOCATION_ALIASES ==
    [bangalore |-> <<"bangalore", "bengaluru", "bengalore">>,
     gurgaon   |-> <<"gurgaon", "gurugram">>,
     noida     |-> <<"noida">>,
     hyderabad |-> <<"hyderabad">>,
     pune      |-> <<"pune">>,
     remote    |-> <<"remote", "anywhere", "work from home", "wfh">>]

FRESHER_PHRASES ==
    <<"fresher", "0-2 years", "0-1 years", "0 - 2", "0 - 1",
      "entry level", "entry-level", "no experience", "fresh graduate",
      "recent graduate", "freshers only", "0 years">>

FRESHER_COUNTER_SIGNALS ==
    <<"senior", "experience", "8+", "10+", "years exp", "l3", "l4">>

OVER_LEVEL_TITLES ==
    <<"director", "vice president", "vp ", "vp,", "chief ",
      "head of", "cto", "cfo", "coo", "ceo", "managing director",
      "general manager", "avp", "assistant vice president">>

OVER_LEVEL_PROFILE_LEVELS == {"junior", "intermediate", "senior"}

_MIN_SKILL_TOKEN_LEN == 4

SENIORITY_TERMS ==
    <<"senior", "lead", "principal", "l3", "l4", "staff", "10+", "8+", "5+",
      "experience", "mid-level", "mid level", "experienced">>

SALARY_MARKERS == <<"lpa", "lakh", "salary", "ctc", "inr">>

(***************************************************************************)
(* scorer.py: helpers                                                      *)
(***************************************************************************)

\* _expand_locations: a key of the alias table becomes its aliases, any
\* other location stays as its lower-cased, stripped self.
RECURSIVE _expand_locations(_)
_expand_locations(locations) ==
    IF locations = <<>> THEN <<>>
    ELSE LET key == Strip(Lower(Head(locations)))
         IN  (IF key \in DOMAIN LOCATION_ALIASES
              THEN LOCATION_ALIASES[key]
              ELSE <<key>>) \o _expand_locations(Tail(locations))

IsAlnum(c) == c \in LowerSet \cup DigitSet

\* [\s-]
IsSkillSep(c) == c \in Whitespace \cup {"-"}

\* Last index of the run [a-z0-9]+ that starts at i.
RECURSIVE RunEnd(_, _)
RunEnd(s, i) ==
    IF i + 1 <= Len(s) /\ IsAlnum(Char(s, i + 1)) THEN RunEnd(s, i + 1) ELSE i

\* Last index of the match of [a-z0-9]+(?:[\s-][a-z0-9]+)* that starts at i:
\* after a run, one separator directly followed by another run extends it.
RECURSIVE MatchEnd(_, _)
MatchEnd(s, i) ==
    LET r == RunEnd(s, i)
    IN  IF r + 2 <= Len(s) /\ IsSkillSep(Char(s, r + 1)) /\ IsAlnum(Char(s, r + 2))
        THEN MatchEnd(s, r + 2)
        ELSE r

\* re.findall(r"[a-z0-9]+(?:[\s-][a-z0-9]+)*", s), scanning from index i.
RECURSIVE FindAllSkillParts(_, _)
FindAllSkillParts(s, i) ==
    IF i > Len(s) THEN <<>>
    ELSE IF IsAlnum(Char(s, i))
         THEN LET e == MatchEnd(s, i)
              IN  <<SubSeq(s, i, e)>> \o FindAllSkillParts(s, e + 1)
         ELSE FindAllSkillParts(s, i + 1)

\* The inner loop of _expand_skills over the parts found in one skill.
RECURSIVE SkillParts(_, _)
SkillParts(parts, low) ==
    IF parts = <<>> THEN <<>>
    ELSE LET part == Strip(Head(parts))
         IN  (IF part # "" /\ part # low /\ Len(part) >= _MIN_SKILL_TOKEN_LEN
              THEN <<part>> ELSE <<>>) \o SkillParts(Tail(parts), low)

RECURSIVE SkillTokens(_)
SkillTokens(raw_skills) ==
    IF raw_skills = <<>> THEN <<>>
    ELSE LET low == Lower(Head(raw_skills))
         IN  <<low>> \o SkillParts(FindAllSkillParts(low, 1), low)
                     \o SkillTokens(Tail(raw_skills))

_expand_skills(raw_skills) == DictFromKeys(SkillTokens(raw_skills))

\* _is_fresher_only: some fresher phrase is in the text and no counter-signal
\* is (the counter-signal test does not depend on the phrase, so `continue`
\* on every phrase or `return True` on the first).
_is_fresher_only(desc, title) ==
    LET text == _normalize(desc) \o " " \o _normalize(title)
    IN  /\ AnyIn(FRESHER_PHRASES, text)
        /\ ~AnyIn(FRESHER_COUNTER_SIGNALS, text)

_is_over_level(title, profile_level) ==
    IF profile_level \notin OVER_LEVEL_PROFILE_LEVELS THEN FALSE
    ELSE AnyIn(OVER_LEVEL_TITLES, _normalize(title))

\* _word_overlap_ratio as the fraction num/den (0.0 is 0/1).
_word_overlap_ratio(role, text) ==
    LET role_words == SplitWords(Lower(role))
        text_words == SplitWords(Lower(text))
        overlap    == role_words \cap text_words
    IN  IF Cardinality(overlap) < 2 /\ Cardinality(role_words) > 1
        THEN [num |-> 0, den |-> 1]
        ELSE IF role_words = {}
             THEN [num |-> 0, den |-> 1]
             ELSE [num |-> Cardinality(overlap), den |-> Cardinality(role_words)]

\* overlap >= 0.6
OverlapAtLeast60(overlap) == 10 * overlap.num >= 6 * overlap.den

NoRoleMatch == [score |-> 0, role |-> "", tier |-> ""]

\* The comparison with the best so far taken as >=: a later role of the same
\* value replaces an earlier one.
RoleStep_LastWins(best, role_raw, tier, title_norm, desc_norm, in_title, by_overlap, in_desc) ==
    LET role == Lower(role_raw)
    IN  IF Contains(title_norm, role)
        THEN (IF in_title >= best.score
              THEN [score |-> in_title, role |-> role_raw, tier |-> tier]
              ELSE best)
        ELSE IF OverlapAtLeast60(_word_overlap_ratio(role, title_norm))
                /\ by_overlap >= best.score
             THEN [score |-> by_overlap, role |-> role_raw, tier |-> tier]
             ELSE IF Contains(desc_norm, role) /\ in_desc >= best.score
                  THEN [score |-> in_desc, role |-> role_raw, tier |-> tier]
                  ELSE best

\* One iteration of a loop of _best_role_match over the roles of one tier;
\* in_title, by_overlap, in_desc are the tier's three contributions.
RoleStep(best, role_raw, tier, title_norm, desc_norm, in_title, by_overlap, in_desc) ==
    LET role == Lower(role_raw)
    IN  IF Contains(title_norm, role)
        THEN (IF in_title > best.score
              THEN [score |-> in_title, role |-> role_raw, tier |-> tier]
              ELSE best)
        ELSE IF OverlapAtLeast60(_word_overlap_ratio(role, title_norm))
                /\ by_overlap > best.score
             THEN [score |-> by_overlap, role |-> role_raw, tier |-> tier]
             ELSE IF Contains(desc_norm, role) /\ in_desc > best.score
                  THEN [score |-> in_desc, role |-> role_raw, tier |-> tier]
                  ELSE best

RECURSIVE RoleLoop(_, _, _, _, _, _, _, _)
RoleLoop(best, roles, tier, title_norm, desc_norm, in_title, by_overlap, in_desc) ==
    IF roles = <<>> THEN best
    ELSE RoleLoop(RoleStep(best, Head(roles), tier, title_norm, desc_norm,
                           in_title, by_overlap, in_desc),
                  Tail(roles), tier, title_norm, desc_norm, in_title, by_overlap, in_desc)

\* The stretch loop started from no match instead of the core loop's best.
_best_role_match_StretchOverrides(title, desc, core_roles, stretch_roles) ==
    LET title_norm == _normalize(title)
        desc_norm  == _normalize(desc)
        after_core == RoleLoop(NoRoleMatch, core_roles, "core",
                               title_norm, desc_norm, 40, 35, 15)
        stretch    == RoleLoop(NoRoleMatch, stretch_roles, "stretch",
                               title_norm, desc_norm, 20, 18, 8)
    IN  IF stretch.score > 0 THEN stretch ELSE after_core

\* The two tiers' weights exchanged.
_best_role_match_TiersSwapped(title, desc, core_roles, stretch_roles) ==
    LET title_norm == _normalize(title)
        desc_norm  == _normalize(desc)
        after_core == RoleLoop(NoRoleMatch, core_roles, "core",
                               title_norm, desc_norm, 20, 18, 8)
    IN  RoleLoop(after_core, stretch_roles, "stretch",
                 title_norm, desc_norm, 40, 35, 15)

_best_role_match(title, desc, core_roles, stretch_roles) ==
    LET title_norm == _normalize(title)
        desc_norm  == _normalize(desc)
        after_core == RoleLoop(NoRoleMatch, core_roles, "core",
                               title_norm, desc_norm, 40, 35, 15)
    IN  RoleLoop(after_core, stretch_roles, "stretch",
                 title_norm, desc_norm, 20, 18, 8)

(***************************************************************************)
(* scorer.py: score_job                                                    *)
(***************************************************************************)

DigitValue(c) == (CHOOSE k \in 1..Len(DigitChars) : Char(DigitChars, k) = c) - 1

IsDigit(c) == c \in DigitSet

\* int(n) for a string of decimal digits.
RECURSIVE IntOf(_)
IntOf(n) ==
    IF n = "" THEN 0
    ELSE 10 * IntOf(SubSeq(n, 1, Len(n) - 1)) + DigitValue(Char(n, Len(n)))

RECURSIVE DigitRunEnd(_, _)
DigitRunEnd(s, i) ==
    IF i + 1 <= Len(s) /\ IsDigit(Char(s, i + 1)) THEN DigitRunEnd(s, i + 1) ELSE i

\* [int(n) for n in re.findall(r"\d+", s)], scanning from index i.
RECURSIVE FindAllInts(_, _)
FindAllInts(s, i) ==
    IF i > Len(s) THEN <<>>
    ELSE IF IsDigit(Char(s, i))
         THEN LET e == DigitRunEnd(s, i)
              IN  <<IntOf(SubSeq(s, i, e))>> \o FindAllInts(s, e + 1)
         ELSE FindAllInts(s, i + 1)

\* [s for s in skills if s in full_text]
RECURSIVE MatchedSkills(_, _)
MatchedSkills(skills, full_text) ==
    IF skills = <<>> THEN <<>>
    ELSE (IF Contains(full_text, Head(skills)) THEN <<Head(skills)>> ELSE <<>>)
         \o MatchedSkills(Tail(skills), full_text)

\* [f"Skill: {s}" for s in xs]
SkillReasons(xs) == [k \in 1..Len(xs) |-> "Skill: " \o xs[k]]

\* xs[:n]
Take(xs, n) == SubSeq(xs, 1, Min(n, Len(xs)))

\* The first seniority term found in the text, as a list of at most one term.
FirstSeniorityTerm(full_text) ==
    LET hits == {k \in 1..Len(SENIORITY_TERMS) : Contains(full_text, SENIORITY_TERMS[k])}
    IN  IF hits = {} THEN <<>>
        ELSE <<SENIORITY_TERMS[CHOOSE k \in hits : \A m \in hits : k <= m]>>

\* What score_job yields: a ScoredJob, or the TypeError that re.findall
\* raises when it is handed None.
ScoredJob(j, score, match_reasons, keyword_suggestions) ==
    [raised |-> FALSE, job |-> j, score |-> score,
     match_reasons |-> match_reasons, keyword_suggestions |-> keyword_suggestions]

Raised(j) ==
    [raised |-> TRUE, job |-> j, score |-> 0,
     match_reasons |-> <<>>, keyword_suggestions |-> <<>>]

OVER_LEVEL_REASON == "Filtered: seniority above profile level"

\* profile.get("profile", {}).get("level", "senior")
ProfileLevel(p) == IF p.level = None THEN "senior" ELSE p.level

\* The salary signal (has_salary), for a description that is a str.
HasSalary(description, full_text, salary_cfg) ==
    /\ salary_cfg.compare_only_when_listed
    /\ salary_cfg.min # NoneInt
    /\ salary_cfg.max # NoneInt
    /\ AnyIn(SALARY_MARKERS, full_text)
    /\ LET found == FindAllInts(description, 1)
       IN  \E k \in 1..Len(found) : salary_cfg.min <= found[k] /\ found[k] <= salary_cfg.max

\* Whether the salary branch reaches re.findall(r"\d+", job.description).
ReachesFindall(full_text, salary_cfg) ==
    /\ salary_cfg.compare_only_when_listed
    /\ salary_cfg.min # NoneInt
    /\ salary_cfg.max # NoneInt
    /\ AnyIn(SALARY_MARKERS, full_text)

\* The bonus granted whatever the tier of the best role.
CompositeSum_BonusAnyTier(role_score, n_matched, has_seniority, has_location, has_salary, role_tier) ==
    role_score
    + Min(5 * n_matched, 25)
    + (IF has_seniority THEN 10 ELSE 0)
    + (IF has_location THEN 15 ELSE 0)
    + (IF has_salary THEN 10 ELSE 0)
    + (IF n_matched >= 3 THEN 5 ELSE 0)

\* Composite score of the signals, in hundredths, before cap and floor.
CompositeSum(role_score, n_matched, has_seniority, has_location, has_salary, role_tier) ==
    role_score
    + Min(5 * n_matched, 25)
    + (IF has_seniority THEN 10 ELSE 0)
    + (IF has_location THEN 15 ELSE 0)
    + (IF has_salary THEN 10 ELSE 0)
    + (IF n_matched >= 3 /\ role_tier = "core" THEN 5 ELSE 0)

\* The cap left out.
CapScore_Missing(score) == score

\* score = min(score, 1.0)
CapScore(score) == Min(score, 100)

\* The floor left out.
FloorScore_Missing(score, unique_matched, core_roles, stretch_roles) == score

\* Fallback floor: `if not score and (unique_matched or core_roles or stretch_roles)`.
FloorScore(score, unique_matched, core_roles, stretch_roles) ==
    IF score = 0 /\ (unique_matched # <<>> \/ core_roles # <<>> \/ stretch_roles # <<>>)
    THEN 10
    ELSE score

score_job(j, p) ==
    LET desc        == _normalize(j.description)
        title_norm  == _normalize(j.title)
        full_text   == desc \o " " \o title_norm
        skills      == _expand_skills(p.skills)
        core_roles  == p.core_roles
        stretch_roles == p.stretch_roles
        locations   == _expand_locations(p.locations)
        salary_cfg  == p.salary_lpa
        profile_level == ProfileLevel(p)
    IN
    IF _is_fresher_only(j.description, j.title)
    THEN ScoredJob(j, 0, <<>>, <<>>)
    ELSE IF _is_over_level(j.title, profile_level)
    THEN ScoredJob(j, 0, <<OVER_LEVEL_REASON>>, <<>>)
    ELSE
    LET best           == _best_role_match(j.title, j.description, core_roles, stretch_roles)
        role_reasons   == IF best.role # ""
                          THEN <<"Role match (" \o best.tier \o "): " \o best.role>>
                          ELSE <<>>
        unique_matched == DictFromKeys(MatchedSkills(skills, full_text))
        skill_reasons  == SkillReasons(Take(unique_matched, 5))
                          \o (IF Len(unique_matched) >= 3
                              THEN <<"Strong skill overlap">> ELSE <<>>)
        seniority      == FirstSeniorityTerm(full_text)
        has_seniority  == seniority # <<>>
        job_loc        == _normalize(j.location)
        has_location   == AnyIn(locations, job_loc)
        findall_raises == j.description = None /\ ReachesFindall(full_text, salary_cfg)
        has_salary     == j.description # None
                          /\ HasSalary(j.description, full_text, salary_cfg)
        reasons        == role_reasons \o skill_reasons
                          \o (IF has_seniority THEN <<"Seniority level fit">> ELSE <<>>)
                          \o (IF has_location THEN <<"Location match">> ELSE <<>>)
                          \o (IF has_salary THEN <<"Salary in range (listed)">> ELSE <<>>)
        keywords       == unique_matched \o seniority
        score          == FloorScore(
                              CapScore(CompositeSum(best.score, Len(unique_matched),
                                                    has_seniority, has_location,
                                                    has_salary, best.tier)),
                              unique_matched, core_roles, stretch_roles)
    IN  IF findall_raises THEN Raised(j)
        ELSE ScoredJob(j, score, reasons, Take(DictFromKeys(keywords), 10))

(***************************************************************************)
(* filter_and_rank                                                         *)
(***************************************************************************)

\* [score_job(j, profile) for j in jobs]
ScoreAll(js, p) == [k \in 1..Len(js) |-> score_job(js[k], p)]

\* [s for s in scored if s.score >= min_score]
RECURSIVE AboveThreshold(_, _)
AboveThreshold(xs, threshold) ==
    IF xs = <<>> THEN <<>>
    ELSE (IF Head(xs).score >= threshold THEN <<Head(xs)>> ELSE <<>>)
         \o AboveThreshold(Tail(xs), threshold)

\* Insert x into a list sorted by the key -score, after every entry whose
\* key is not greater (sorted() is stable).
RECURSIVE InsertByScore(_, _)
InsertByScore(sorted, x) ==
    IF sorted = <<>> THEN <<x>>
    ELSE IF -Head(sorted).score <= -x.score
         THEN <<Head(sorted)>> \o InsertByScore(Tail(sorted), x)
         ELSE <<x>> \o sorted

\* The sort left out: the filtered list in input order.
SortedByScore_Unsorted(xs) == xs

\* sorted(xs, key=lambda s: -s.score)
RECURSIVE SortedByScore(_)
SortedByScore(xs) ==
    IF xs = <<>> THEN <<>>
    ELSE InsertByScore(SortedByScore(SubSeq(xs, 1, Len(xs) - 1)), xs[Len(xs)])

filter_and_rank(scored_jobs, threshold) ==
    SortedByScore(AboveThreshold(scored_jobs, threshold))

(***************************************************************************)
(* Inputs                                                                  *)
(***************************************************************************)

\* Largest number of profile skills, and longest job list given to
\* filter_and_rank.
MaxSkills == 6
MaxJobs == 3

Titles ==
    {"Senior Site Reliability Engineer", "Fresher Software Engineer",
     "Director of Engineering", "Engineering VP", "SRE", "DevOps Engineer",
     "Accountant", "Site Reliability Lead"}

Descriptions ==
    {"", "0-2 years, no experience needed",
     "Kubernetes, Python, 8+ years, incident response",
     "Entry level role, 0-2 years", "python", "We need an SRE",
     "Kubernetes Python Terraform Docker Ansible Grafana, 5+ years, salary 30 LPA",
     "DevOps Engineer wanted"}

JobLocations == {"Bangalore, India", "Pune"}

SkillPool == <<"Kubernetes", "Python", "Terraform", "Docker", "Ansible", "Grafana", "CI/CD Pipelines">>

SkillLists == {SubSeq(SkillPool, 1, n) : n \in 0..Min(MaxSkills, Len(SkillPool))}

CoreRoleLists ==
    {<<>>, <<"Site Reliability Engineer">>, <<"SRE">>,
     <<"Site Reliability Engineer", "SRE">>, <<"SRE", "Site Reliability Engineer">>}

StretchRoleLists == {<<>>, <<"DevOps Engineer">>}

ProfileLocationLists == {<<"Bangalore">>}

NoSalary == [min |-> NoneInt, max |-> NoneInt, compare_only_when_listed |-> TRUE]

SalaryConfigs == {NoSalary, [min |-> 20, max |-> 40, compare_only_when_listed |-> TRUE]}

Levels == {"senior", "executive"}

Jobs ==
    [id : {"j"}, title : Titles, description : Descriptions, location : JobLocations]

Profiles ==
    [skills : SkillLists, level : Levels, core_roles : CoreRoleLists,
     stretch_roles : StretchRoleLists, locations : ProfileLocationLists,
     salary_lpa : SalaryConfigs]

\* No call of score_job has returned yet.
NotScored == [raised |-> FALSE, job |-> [id |-> "", title |-> "", description |-> "",
                                         location |-> ""],
              score |-> -1, match_reasons |-> <<>>, keyword_suggestions |-> <<>>]

(***************************************************************************)
(* One call of score_job                                                   *)
(***************************************************************************)

Init ==
    /\ job \in Jobs
    /\ profile \in Profiles
    /\ sj = NotScored
    /\ jobs = <<>>
    /\ min_score = 0
    /\ scored = <<>>
    /\ ranked = <<>>
    /\ pc = "call"
    /\ OthersIdleForScorer

ScoreJob ==
    /\ pc = "call"
    /\ sj' = score_job(job, profile)
    /\ pc' = "returned"
    /\ UNCHANGED <<job, profile, jobs, min_score, scored, ranked>>
    /\ UNCHANGED notScorerVars

Next == ScoreJob

Spec == Init /\ [][Next]_vars

(***************************************************************************)
(* One call of filter_and_rank, on a list of jobs with distinct ids (run   *)
(* removes repeated ids before it ranks)                                   *)
(***************************************************************************)

RankJob(id, title, description) ==
    [id |-> id, title |-> title, description |-> description, location |-> "Pune"]

RichStretchRole == "Lead Python Kubernetes Terraform Engineer"

RankJobs ==
    {RankJob("a", "SRE", ""),
     RankJob("b", "DevOps Engineer", ""),
     RankJob("c", RichStretchRole, ""),
     RankJob("d", "Accountant", ""),
     RankJob("e", "Accountant", "python"),
     RankJob("f", "Accountant", "python kubernetes")}

RankJobLists ==
    {js \in UNION {[1..n -> RankJobs] : n \in 0..MaxJobs} :
        \A x, y \in 1..Len(js) : x # y => js[x].id # js[y].id}

RankProfiles ==
    [skills : {SubSeq(SkillPool, 1, n) : n \in {0, 1, 3}}, level : {"senior"},
     core_roles : {<<>>, <<"SRE">>},
     stretch_roles : {<<"DevOps Engineer">>, <<RichStretchRole>>},
     locations : {<<>>}, salary_lpa : {NoSalary}]

MinScores == {0, 20, 40}

InitRank ==
    /\ jobs \in RankJobLists
    /\ profile \in RankProfiles
    /\ min_score \in MinScores
    /\ scored = <<>>
    /\ ranked = <<>>
    /\ pc = "call"
    /\ job = NotScored.job
    /\ sj = NotScored
    /\ OthersIdleForScorer

FilterAndRank ==
    /\ pc = "call"
    /\ scored' = ScoreAll(jobs, profile)
    /\ ranked' = filter_and_rank(scored', min_score)
    /\ pc' = "returned"
    /\ UNCHANGED <<job, profile, sj, jobs, min_score>>
    /\ UNCHANGED notScorerVars

NextRank == FilterAndRank

SpecRank == InitRank /\ [][NextRank]_vars

(***************************************************************************)
(* Vocabulary of the properties: the signals of a job under a profile,     *)
(* stated on sets rather than on the lists score_job builds.               *)
(***************************************************************************)

Range(xs) == {xs[k] : k \in 1..Len(xs)}

FullText(j) == _normalize(j.description) \o " " \o _normalize(j.title)

FresherFiltered(j) == _is_fresher_only(j.description, j.title)

OverLevelFiltered(j, p) == ~FresherFiltered(j) /\ _is_over_level(j.title, ProfileLevel(p))

PassesHardFilters(j, p) == ~FresherFiltered(j) /\ ~_is_over_level(j.title, ProfileLevel(p))

\* The distinct skill tokens of the profile found in the job's text.
MatchedTokens(j, p) == {t \in Range(_expand_skills(p.skills)) : Contains(FullText(j), t)}

SeniorityFit(j) == \E t \in Range(SENIORITY_TERMS) : Contains(FullText(j), t)

LocationFit(j, p) ==
    \E a \in Range(_expand_locations(p.locations)) : Contains(_normalize(j.location), a)

SalaryFit(j, p) == HasSalary(j.description, FullText(j), p.salary_lpa)

BestRole(j, p) == _best_role_match(j.title, j.description, p.core_roles, p.stretch_roles)

RolesConfigured(p) == p.core_roles # <<>> \/ p.stretch_roles # <<>>

\* score 0.0 with no reason and no keyword.
HardZero(s) == s.score = 0 /\ s.match_reasons = <<>> /\ s.keyword_suggestions = <<>>

Returned == pc = "returned" /\ ~sj.raised

(***************************************************************************)
(* C1                                                                      *)
(***************************************************************************)

SpecExampleFresherJob(j) ==
    j.title = "Fresher Software Engineer" /\ j.description = "0-2 years, no experience needed"

\* C1: a job whose title+description holds an entry-level marker phrase and
\* no senior counter-signal gets score 0.0 with empty match_reasons and empty
\* keyword_suggestions, whatever the profile; and so does the job titled
\* 'Fresher Software Engineer' described '0-2 years, no experience needed'.
C1_FresherJobsScoreZero ==
    Returned =>
        /\ (AnyIn(FRESHER_PHRASES, FullText(job))
            /\ ~AnyIn(FRESHER_COUNTER_SIGNALS, FullText(job))) => HardZero(sj)
        /\ SpecExampleFresherJob(job) => HardZero(sj)

\* The part of C1 that leaves the example out.
C1_MarkedJobsScoreZero ==
    Returned =>
        ((AnyIn(FRESHER_PHRASES, FullText(job))
          /\ ~AnyIn(FRESHER_COUNTER_SIGNALS, FullText(job))) => HardZero(sj))

(***************************************************************************)
(* C2                                                                      *)
(***************************************************************************)

\* Director, VP, C-suite, Head of, General Manager, AVP.
ExecutiveMarkers ==
    <<"director", "vp", "vice president", "chief", "cto", "cfo", "coo", "ceo",
      "head of", "general manager", "avp">>

OverLevelResult(s) ==
    s.score = 0 /\ s.match_reasons = <<OVER_LEVEL_REASON>> /\ s.keyword_suggestions = <<>>

\* C2: for a junior, intermediate or senior profile, a job that is not
\* fresher-filtered and whose title contains an executive-tier marker anywhere
\* gets score 0.0 with the single reason 'Filtered: seniority above profile
\* level'; for any other profile level the over-level filter never fires.
C2_ExecutiveTitlesFiltered ==
    Returned =>
        /\ (/\ ProfileLevel(profile) \in {"junior", "intermediate", "senior"}
            /\ ~FresherFiltered(job)
            /\ AnyIn(ExecutiveMarkers, _normalize(job.title))) => OverLevelResult(sj)
        /\ ProfileLevel(profile) \notin {"junior", "intermediate", "senior"}
               => sj.match_reasons # <<OVER_LEVEL_REASON>>

(***************************************************************************)
(* C3                                                                      *)
(***************************************************************************)

\* C3: the score that score_job returns lies in [0.0, 1.0] for every job and
\* profile.
C3_ScoreInUnitInterval == Returned => (0 <= sj.score /\ sj.score <= 100)

\* Every signal fired at once: core role in the title, five skills or more,
\* the bonus, seniority, location and salary sum to 1.05 and are capped.
C3_Witness ==
    /\ Returned
    /\ BestRole(job, profile).score = 40
    /\ Cardinality(MatchedTokens(job, profile)) >= 5
    /\ SeniorityFit(job) /\ LocationFit(job, profile) /\ SalaryFit(job, profile)
    /\ sj.score = 100

(***************************************************************************)
(* C4                                                                      *)
(***************************************************************************)

RankReturned == pc = "returned" /\ \A k \in 1..Len(scored) : ~scored[k].raised

\* Two jobs scored under profile p that differ only in their descriptions,
\* with every signal but the skills the same.
SameButSkills(j1, j2, p) ==
    /\ j1.title = j2.title /\ j1.location = j2.location
    /\ FresherFiltered(j1) = FresherFiltered(j2)
    /\ BestRole(j1, p) = BestRole(j2, p)
    /\ SeniorityFit(j1) = SeniorityFit(j2)
    /\ SalaryFit(j1, p) = SalaryFit(j2, p)

\* j2 matches the skill tokens that j1 matches and exactly one more.
OneMoreTokenMatched(j1, j2, p) ==
    /\ MatchedTokens(j1, p) \subseteq MatchedTokens(j2, p)
    /\ Cardinality(MatchedTokens(j2, p)) = Cardinality(MatchedTokens(j1, p)) + 1

\* C4: of two inputs to score_job that are identical except that one more
\* profile skill token is matched in the job text (n versus n+1, n >= 0), the
\* one with n+1 matched tokens never scores lower.
C4_SkillMonotone ==
    RankReturned =>
        \A x, y \in 1..Len(jobs) :
            (SameButSkills(jobs[x], jobs[y], profile)
             /\ OneMoreTokenMatched(jobs[x], jobs[y], profile))
                => scored[y].score >= scored[x].score

\* The same for n >= 1 only: past the first token the score is monotone.
C4_SkillMonotoneFromOne ==
    RankReturned =>
        \A x, y \in 1..Len(jobs) :
            (SameButSkills(jobs[x], jobs[y], profile)
             /\ OneMoreTokenMatched(jobs[x], jobs[y], profile)
             /\ MatchedTokens(jobs[x], profile) # {})
                => scored[y].score >= scored[x].score

(***************************************************************************)
(* C5                                                                      *)
(***************************************************************************)

\* Jobs x and y of the list are titled with the profile's one core role and
\* its one stretch role and agree in every other field.
CoreVersusStretchTitle(x, y) ==
    /\ Len(profile.core_roles) = 1 /\ Len(profile.stretch_roles) = 1
    /\ jobs[x].title = profile.core_roles[1]
    /\ jobs[y].title = profile.stretch_roles[1]
    /\ jobs[x].description = jobs[y].description
    /\ jobs[x].location = jobs[y].location

\* C5: for a profile with one core role A and one stretch role B, a job
\* titled A scores at least as high as a job titled B that is identical in
\* every other field.
C5_CoreTitleOutscoresStretchTitle ==
    RankReturned =>
        \A x, y \in 1..Len(jobs) :
            CoreVersusStretchTitle(x, y) => scored[x].score >= scored[y].score

\* The title of job y carries no skill, seniority or salary signal that job x
\* lacks.
NoExtraTitleSignal(x, y) ==
    /\ MatchedTokens(jobs[y], profile) \subseteq MatchedTokens(jobs[x], profile)
    /\ SeniorityFit(jobs[y]) => SeniorityFit(jobs[x])
    /\ SalaryFit(jobs[y], profile) => SalaryFit(jobs[x], profile)

Unpadded(role) == Strip(role) = role

\* C5 (amended): the same, for role names without surrounding whitespace,
\* when both jobs pass the hard filters and the title B brings no skill token,
\* seniority term or salary signal that the job titled A lacks.
C5_CoreTitleOutscoresStretchTitle_Amended ==
    RankReturned =>
        \A x, y \in 1..Len(jobs) :
            (/\ CoreVersusStretchTitle(x, y)
             /\ Unpadded(profile.core_roles[1]) /\ Unpadded(profile.stretch_roles[1])
             /\ PassesHardFilters(jobs[x], profile)
             /\ PassesHardFilters(jobs[y], profile)
             /\ NoExtraTitleSignal(x, y))
                => scored[x].score >= scored[y].score

\* A job titled with the core role at 0.40 beside one titled with the
\* stretch role at 0.20.
C5_Witness ==
    /\ RankReturned
    /\ \E x, y \in 1..Len(jobs) :
           /\ CoreVersusStretchTitle(x, y)
           /\ PassesHardFilters(jobs[x], profile) /\ PassesHardFilters(jobs[y], profile)
           /\ NoExtraTitleSignal(x, y)
           /\ scored[x].score = 40 /\ scored[y].score = 20

(***************************************************************************)
(* C10                                                                     *)
(***************************************************************************)

\* C10: filter_and_rank returns exactly the ScoredJobs of the input jobs
\* whose score is >= min_score, each once, in order of non-increasing score.
C10_RankedIsFilteredAndSorted ==
    RankReturned =>
        LET expected == [x \in 1..Len(jobs) |-> score_job(jobs[x], profile)]
            retained == {x \in 1..Len(jobs) : expected[x].score >= min_score}
        IN  /\ Len(ranked) = Cardinality(retained)
            /\ \A x \in retained : \E k \in 1..Len(ranked) : ranked[k] = expected[x]
            /\ \A k \in 1..Len(ranked) : \E x \in retained : ranked[k] = expected[x]
            /\ \A k, m \in 1..Len(ranked) : k < m => ranked[k].score >= ranked[m].score

\* The position in the input list of the job with the given id.
InputIndex(id) == CHOOSE x \in 1..Len(jobs) : jobs[x].id = id

\* A call that drops a job below the threshold and moves a later,
\* higher-scoring job in front of an earlier one.
C10_Witness ==
    /\ RankReturned
    /\ Len(ranked) >= 2
    /\ Len(ranked) < Len(jobs)
    /\ \E k \in 1..(Len(ranked) - 1) :
           /\ ranked[k].score > ranked[k + 1].score
           /\ InputIndex(ranked[k].job.id) > InputIndex(ranked[k + 1].job.id)

(***************************************************************************)
(* C6                                                                      *)
(***************************************************************************)

\* The role is matched in the job's title: as a substring, or by at least
\* 60% of its words.
MatchesInTitle(j, role) ==
    \/ Contains(_normalize(j.title), Lower(role))
    \/ OverlapAtLeast60(_word_overlap_ratio(Lower(role), _normalize(j.title)))

\* The role is matched by any of the three rules.
MatchesRole(j, role) ==
    MatchesInTitle(j, role) \/ Contains(_normalize(j.description), Lower(role))

\* score_job recorded a core role match as its first reason.
CoreRoleReason(s, p) ==
    /\ s.match_reasons # <<>>
    /\ \E r \in Range(p.core_roles) : s.match_reasons[1] = "Role match (core): " \o r

\* C6: for every job that matches at least one core role (in title or
\* description) and at least one stretch role, _best_role_match reports tier
\* 'core' and score_job records 'Role match (core): ...'.
C6_CoreOutranksStretch ==
    (Returned /\ PassesHardFilters(job, profile)) =>
        ((/\ \E r \in Range(profile.core_roles) : MatchesRole(job, r)
          /\ \E r \in Range(profile.stretch_roles) : MatchesRole(job, r))
            => (BestRole(job, profile).tier = "core" /\ CoreRoleReason(sj, profile)))

\* C6 (amended): the same for a job that passes the hard filters and matches
\* at least one core role in its title (substring or word overlap), no core
\* role being the empty string; a core
\* role matched in the description only (0.15) is outranked by a stretch role
\* matched in the title (0.20 or 0.18).
C6_CoreInTitleOutranksStretch ==
    (Returned /\ PassesHardFilters(job, profile)) =>
        ((/\ \A r \in Range(profile.core_roles) : r # ""
          /\ \E r \in Range(profile.core_roles) : MatchesInTitle(job, r)
          /\ \E r \in Range(profile.stretch_roles) : MatchesRole(job, r))
            => (BestRole(job, profile).tier = "core" /\ CoreRoleReason(sj, profile)))

\* A core role in the title beside a stretch role that also matches.
C6_Witness ==
    /\ Returned /\ PassesHardFilters(job, profile)
    /\ \E r \in Range(profile.core_roles) : MatchesInTitle(job, r)
    /\ \E r \in Range(profile.stretch_roles) : MatchesRole(job, r)
    /\ CoreRoleReason(sj, profile)

(***************************************************************************)
(* C7                                                                      *)
(***************************************************************************)

Indicator(b) == IF b THEN 1 ELSE 0

\* role + min(0.05*n, 0.25) + 0.10*[seniority] + 0.15*[location]
\* + 0.10*[salary] + 0.05*[n >= 3 and best role is core], in hundredths.
Contributions(j, p) ==
    LET n    == Cardinality(MatchedTokens(j, p))
        best == BestRole(j, p)
    IN  best.score
        + (IF 5 * n < 25 THEN 5 * n ELSE 25)
        + 10 * Indicator(SeniorityFit(j))
        + 15 * Indicator(LocationFit(j, p))
        + 10 * Indicator(SalaryFit(j, p))
        + 5 * Indicator(n >= 3 /\ best.tier = "core")

ScenarioJob(j) ==
    /\ j.title = "Senior Site Reliability Engineer"
    /\ j.location = "Bangalore, India"
    /\ j.description = "Kubernetes, Python, 8+ years, incident response"

ScenarioProfile(p) ==
    /\ p.core_roles = <<"Site Reliability Engineer">>
    /\ p.stretch_roles = <<>>
    /\ p.skills = <<"Kubernetes", "Python">>
    /\ p.locations = <<"Bangalore">>
    /\ p.level = "senior"
    /\ p.salary_lpa = NoSalary

ScenarioReasons ==
    <<"Role match (core): Site Reliability Engineer", "Skill: kubernetes",
      "Skill: python", "Seniority level fit", "Location match">>

\* C7: a job that passes both hard filters and whose contributions sum to
\* more than 0 scores min(1.0, sum of the contributions); the end-to-end
\* scenario scores 0.75 with its five reasons in order.
C7_CompositeScore ==
    Returned =>
        /\ PassesHardFilters(job, profile)
               => LET sum == Contributions(job, profile)
                  IN  sum > 0 => sj.score = (IF sum < 100 THEN sum ELSE 100)
        /\ (ScenarioJob(job) /\ ScenarioProfile(profile))
               => (sj.score = 75 /\ sj.match_reasons = ScenarioReasons)

\* The end-to-end scenario has been scored.
C7_Witness ==
    Returned /\ ScenarioJob(job) /\ ScenarioProfile(profile) /\ sj.score = 75

(***************************************************************************)
(* C8                                                                      *)
(***************************************************************************)

HardFiltered(j, p) == FresherFiltered(j) \/ _is_over_level(j.title, ProfileLevel(p))

\* C8: score_job yields score 0.0 with empty match_reasons if and only if the
\* job was hard-filtered.
C8_ZeroWithoutReasonsIffFiltered ==
    Returned =>
        ((sj.score = 0 /\ sj.match_reasons = <<>>) <=> HardFiltered(job, profile))

\* Nothing of the job matches and the profile configures no role.
NoSignal(j, p) ==
    /\ ~RolesConfigured(p)
    /\ MatchedTokens(j, p) = {}
    /\ ~SeniorityFit(j) /\ ~LocationFit(j, p) /\ ~SalaryFit(j, p)

\* C8 (amended): score 0.0 with empty match_reasons is yielded exactly for a
\* fresher-filtered job and for an unfiltered job without any signal under a
\* profile without roles; an over-level job gets 0.0 with the single reason
\* 'Filtered: seniority above profile level'; with a role configured, 0.0
\* with empty reasons means fresher-filtered.
C8_ZeroWithoutReasons_Amended ==
    Returned =>
        /\ (sj.score = 0 /\ sj.match_reasons = <<>>)
               <=> (FresherFiltered(job)
                    \/ (PassesHardFilters(job, profile) /\ NoSignal(job, profile)))
        /\ OverLevelFiltered(job, profile) => OverLevelResult(sj)
        /\ RolesConfigured(profile)
               => ((sj.score = 0 /\ sj.match_reasons = <<>>) <=> FresherFiltered(job))

\* An unfiltered job scored 0.0 with no reason.
C8_Witness ==
    /\ Returned /\ PassesHardFilters(job, profile)
    /\ sj.score = 0 /\ sj.match_reasons = <<>>

(***************************************************************************)
(* C9                                                                      *)
(***************************************************************************)

\* C9: a job that passes both hard filters and has a weak signal (a matched
\* skill token, or a core or stretch role configured) never scores below
\* 0.10; a hard-filtered job is never floored and stays at 0.0.
C9_WeakSignalFloor ==
    Returned =>
        /\ (/\ PassesHardFilters(job, profile)
            /\ (MatchedTokens(job, profile) # {} \/ RolesConfigured(profile)))
               => sj.score >= 10
        /\ HardFiltered(job, profile) => sj.score = 0

\* What the code keeps of C9: with a role configured no unfiltered job
\* scores 0.0, and a hard-filtered job stays at 0.0.
C9_NoZeroWithRoles ==
    Returned =>
        /\ (PassesHardFilters(job, profile) /\ RolesConfigured(profile)) => sj.score > 0
        /\ HardFiltered(job, profile) => sj.score = 0

(***************************************************************************)
(* Source registry: get_sources (src/src/sources/__init__.py) with the     *)
(* environment reader get_env (src/src/config.py) that run hands to it     *)
(***************************************************************************)

ScorerIdle ==
    /\ job = NotScored.job
    /\ profile = <<>>
    /\ sj = NotScored
    /\ jobs = <<>>
    /\ min_score = 0
    /\ scored = <<>>
    /\ ranked = <<>>
    /\ pc = "idle"

EnvKeys == {"SERPAPI_KEY", "JSEARCH_API_KEY", "ADZUNA_APP_ID", "ADZUNA_APP_KEY",
            "RAPIDAPI_KEY"}

\* os.environ.get(key, "").strip(); an unset variable holds None here.
get_env(e, key) == IF e[key] = None THEN "" ELSE Strip(e[key])

get_sources_MockDropped(p, e) ==
    (IF get_env(e, "SERPAPI_KEY") # "" THEN <<"SerpApiSource">> ELSE <<>>)
    \o (IF get_env(e, "JSEARCH_API_KEY") # "" THEN <<"JSearchSource">> ELSE <<>>)
    \o (IF get_env(e, "ADZUNA_APP_ID") # "" /\ get_env(e, "ADZUNA_APP_KEY") # ""
        THEN <<"AdzunaSource">> ELSE <<>>)
    \o (IF get_env(e, "RAPIDAPI_KEY") # "" THEN <<"LinkedInRapidSource">> ELSE <<>>)
    \o (IF \E i \in 1..Len(p.locations) : Lower(p.locations[i]) = "remote"
        THEN <<"RemotiveSource">> ELSE <<>>)

get_sources(p, e) ==
    LET s1 == IF get_env(e, "SERPAPI_KEY") # "" THEN <<"SerpApiSource">> ELSE <<>>
        s2 == IF get_env(e, "JSEARCH_API_KEY") # ""
              THEN Append(s1, "JSearchSource") ELSE s1
        s3 == IF get_env(e, "ADZUNA_APP_ID") # "" /\ get_env(e, "ADZUNA_APP_KEY") # ""
              THEN Append(s2, "AdzunaSource") ELSE s2
        s4 == IF get_env(e, "RAPIDAPI_KEY") # ""
              THEN Append(s3, "LinkedInRapidSource") ELSE s3
        profile_locations == [i \in 1..Len(p.locations) |-> Lower(p.locations[i])]
        s5 == IF \E i \in 1..Len(profile_locations) : profile_locations[i] = "remote"
              THEN Append(s4, "RemotiveSource") ELSE s4
    IN  IF s5 = <<>> THEN <<"MockSource">> ELSE s5

EnvValues == {None, " ", "key"}

Environs == [EnvKeys -> EnvValues]

RegistryLocationLists ==
    {<<>>, <<"Bangalore">>, <<"Remote">>, <<"Bangalore", "REMOTE">>,
     <<"Remote work">>, <<"remote ">>}

InitRegistry ==
    /\ environ \in Environs
    /\ src_profile \in [locations : RegistryLocationLists]
    /\ sources = <<>>
    /\ src_pc = "call"
    /\ ScorerIdle
    /\ RunIdle
    /\ SearchIdle
    /\ TrackerIdle
    /\ AgentIdle
    /\ RetryIdle

GetSources ==
    /\ src_pc = "call"
    /\ sources' = get_sources(src_profile, environ)
    /\ src_pc' = "returned"
    /\ UNCHANGED <<environ, src_profile, notRegistryVars>>

NextRegistry == GetSources

SpecRegistry == InitRegistry /\ [][NextRegistry]_vars

\* A credential is present when the reader returns a non-empty string.
Present(key) == environ[key] \notin {None, "", " "}

EqualsIgnoringCase(a, b) ==
    /\ Len(a) = Len(b)
    /\ \A i \in 1..Len(a) : LowerChar(Char(a, i)) = LowerChar(Char(b, i))

RemoteConfigured ==
    \E i \in 1..Len(src_profile.locations) :
        EqualsIgnoringCase(src_profile.locations[i], "remote")

Registered(name) == \E i \in 1..Len(sources) : sources[i] = name

RealSources ==
    {"SerpApiSource", "JSearchSource", "AdzunaSource", "LinkedInRapidSource",
     "RemotiveSource"}

MaxResults == 2

RunJob(id, source) == [id |-> id, source |-> source]

RunIds == {"a", "b"}

\* MockSource.search: three sample jobs, cut to the limit.
MockSearch(limit) ==
    Take(<<RunJob("mock-1", "mock"), RunJob("mock-2", "mock"), RunJob("mock-3", "mock")>>,
         limit)

\* What source.search may do: raise, or return a list of jobs (the mock
\* source always returns its samples).
Raises == [raised |-> TRUE, jobs |-> <<>>]

Returns(js) == [raised |-> FALSE, jobs |-> js]

SearchOutcomes(name) ==
    IF name = "MockSource" THEN {Returns(MockSearch(30))}
    ELSE {Raises} \cup
         {Returns([k \in 1..Len(ids) |-> RunJob(ids[k], name)]) :
             ids \in UNION {[1..n -> RunIds] : n \in 0..MaxResults}}

_search_source_Uncaught(outcome) ==
    [exc |-> outcome.raised, jobs |-> outcome.jobs]

\* _search_source: the worker's result is the list search returned, or the
\* empty list when search raised.
_search_source(outcome) ==
    IF outcome.raised THEN [exc |-> FALSE, jobs |-> <<>>]
    ELSE [exc |-> FALSE, jobs |-> outcome.jobs]

Pending == [state |-> "pending"]

Done(outcome) == [state |-> "done", outcome |-> outcome, value |-> _search_source(outcome)]

RECURSIVE MergeInto_NoDedup(_, _, _)
MergeInto_NoDedup(all, ids, batch) ==
    IF batch = <<>> THEN [all_jobs |-> all, seen |-> ids]
    ELSE MergeInto_NoDedup(Append(all, Head(batch)), ids \cup {Head(batch).id}, Tail(batch))

\* for job in batch: if job.id not in seen: seen.add(job.id); all_jobs.append(job)
RECURSIVE MergeInto(_, _, _)
MergeInto(all, ids, batch) ==
    IF batch = <<>> THEN [all_jobs |-> all, seen |-> ids]
    ELSE IF Head(batch).id \in ids THEN MergeInto(all, ids, Tail(batch))
    ELSE MergeInto(Append(all, Head(batch)), ids \cup {Head(batch).id}, Tail(batch))

NeedsFallback_Always(all) == TRUE

\* if not all_jobs
NeedsFallback(all) == all = <<>>

Slice_Whole(xs, n) == xs

\* xs[:n]
Slice(xs, n) == IF n >= 0 THEN Take(xs, n) ELSE SubSeq(xs, 1, Len(xs) + n)

\* The filter left out: tracked jobs stay in the list.
NotIn_KeepAll(xs, ids) == xs

RECURSIVE NotIn(_, _)
NotIn(xs, ids) ==
    IF xs = <<>> THEN <<>>
    ELSE IF Head(xs).id \in ids THEN NotIn(Tail(xs), ids)
    ELSE <<Head(xs)>> \o NotIn(Tail(xs), ids)

RunEnvirons ==
    {e \in Environs :
        /\ e["ADZUNA_APP_ID"] = None /\ e["ADZUNA_APP_KEY"] = None
        /\ e["RAPIDAPI_KEY"] = None
        /\ e["SERPAPI_KEY"] # " " /\ e["JSEARCH_API_KEY"] # " "}

RunProfiles ==
    [preferred_roles : {<<>>, <<"SRE">>}, locations : {<<"Bangalore">>, <<"Remote">>}]

MaxJobsValues == {-1, 0, 1, 2, 30}

AppliedSets == {{}, {"a"}, {"mock-2"}}

InitRun ==
    /\ environ \in RunEnvirons
    /\ src_profile \in RunProfiles
    /\ max_jobs \in MaxJobsValues
    /\ sources = <<>>
    /\ src_pc = "idle"
    /\ worker = <<>>
    /\ yielded = {}
    /\ all_jobs = <<>>
    /\ seen = {}
    /\ mock_invoked = FALSE
    /\ applied_ids = {}
    /\ new_jobs = <<>>
    /\ result = <<>>
    /\ run_pc = "start"
    /\ ScorerIdle
    /\ SearchIdle
    /\ TrackerIdle
    /\ AgentIdle
    /\ RetryIdle

\* Lines 47-75: the early return without roles, else the sources and one
\* submitted worker per source.
RunStart ==
    /\ run_pc = "start"
    /\ IF src_profile.preferred_roles = <<>>
       THEN /\ result' = [jobs_found |-> 0]
            /\ run_pc' = "returned"
            /\ UNCHANGED <<sources, worker>>
       ELSE /\ sources' = get_sources(src_profile, environ)
            /\ worker' = [s \in 1..Len(sources') |-> Pending]
            /\ run_pc' = "merge"
            /\ UNCHANGED result
    /\ UNCHANGED <<environ, src_profile, src_pc, yielded, all_jobs, seen, mock_invoked,
                   max_jobs, applied_ids, new_jobs, notRunVars>>

\* A pool thread runs _search_source for source s.
SearchSource(s) ==
    /\ run_pc = "merge"
    /\ worker[s].state = "pending"
    /\ \E o \in SearchOutcomes(sources[s]) : worker' = [worker EXCEPT ![s] = Done(o)]
    /\ UNCHANGED <<registryVars, yielded, all_jobs, seen, mock_invoked, max_jobs,
                   applied_ids, new_jobs, result, run_pc, notRunVars>>

\* as_completed yields the finished future of source s; future.result()
\* raises what the worker raised, else its jobs are merged.
MergeFuture(s) ==
    /\ run_pc = "merge"
    /\ worker[s].state = "done"
    /\ s \notin yielded
    /\ yielded' = yielded \cup {s}
    /\ IF worker[s].value.exc
       THEN /\ run_pc' = "raised"
            /\ UNCHANGED <<all_jobs, seen>>
       ELSE /\ LET m == MergeInto(all_jobs, seen, worker[s].value.jobs)
               IN  all_jobs' = m.all_jobs /\ seen' = m.seen
            /\ UNCHANGED run_pc
    /\ UNCHANGED <<registryVars, worker, mock_invoked, max_jobs, applied_ids, new_jobs,
                   result, notRunVars>>

AllYielded == yielded = DOMAIN worker

\* Lines 82-90, once every future has been yielded and the pool is closed.
Fallback ==
    /\ run_pc = "merge"
    /\ AllYielded
    /\ IF NeedsFallback(all_jobs)
       THEN /\ LET m == MergeInto(all_jobs, seen, MockSearch(15))
               IN  all_jobs' = m.all_jobs /\ seen' = m.seen
            /\ mock_invoked' = TRUE
       ELSE UNCHANGED <<all_jobs, seen, mock_invoked>>
    /\ run_pc' = "truncate"
    /\ UNCHANGED <<registryVars, worker, yielded, max_jobs, applied_ids, new_jobs, result,
                   notRunVars>>

\* Line 91
Truncate ==
    /\ run_pc = "truncate"
    /\ all_jobs' = Slice(all_jobs, max_jobs)
    /\ run_pc' = "filter"
    /\ UNCHANGED <<registryVars, worker, yielded, seen, mock_invoked, max_jobs, applied_ids,
                   new_jobs, result, notRunVars>>

\* Lines 94-96 and the returned dict: the jobs not yet tracked go to
\* filter_and_rank, jobs_found counts the truncated list.
FilterNew ==
    /\ run_pc = "filter"
    /\ \E applied \in AppliedSets :
          /\ applied_ids' = applied
          /\ new_jobs' = NotIn(all_jobs, applied)
    /\ result' = [jobs_found |-> Len(all_jobs)]
    /\ run_pc' = "returned"
    /\ UNCHANGED <<registryVars, worker, yielded, all_jobs, seen, mock_invoked, max_jobs,
                   notRunVars>>

NextRun ==
    \/ RunStart
    \/ \E s \in DOMAIN worker : SearchSource(s)
    \/ \E s \in DOMAIN worker : MergeFuture(s)
    \/ Fallback
    \/ Truncate
    \/ FilterNew

SpecRun == InitRun /\ [][NextRun]_vars

(***************************************************************************)
(* Properties of run's aggregation                                         *)
(***************************************************************************)

Ids(xs) == {xs[k].id : k \in 1..Len(xs)}

WorkerDone(s) == worker[s].state = "done"

AllWorkersDone == \A s \in DOMAIN worker : WorkerDone(s)

\* The worker of source s finished and its search returned normally.
SearchReturned(s) == WorkerDone(s) /\ ~worker[s].outcome.raised

SearchRaised(s) == WorkerDone(s) /\ worker[s].outcome.raised

SomeSourceReturnedJob ==
    \E s \in DOMAIN worker : SearchReturned(s) /\ worker[s].outcome.jobs # <<>>

\* The aggregation ran (roles are configured) and is past the fallback step.
PastFallback == worker # <<>> /\ run_pc \in {"truncate", "filter", "returned"}

FallbackStep == run_pc = "merge" /\ run_pc' = "truncate"

\* C11: the mock fallback generator is invoked if and only if the merged list
\* is empty after every source worker has completed: never when a source
\* returned a job, and never before all workers have finished.
C11_FallbackOnlyOnEmpty ==
    /\ [](mock_invoked => (AllWorkersDone /\ AllYielded /\ ~SomeSourceReturnedJob))
    /\ [](PastFallback => (mock_invoked <=> ~SomeSourceReturnedJob))
    /\ [][FallbackStep => (AllWorkersDone /\ (mock_invoked' <=> all_jobs = <<>>))]_vars

\* Two sources, one raised and one returned no job, and the fallback ran.
C11_Witness ==
    /\ Len(worker) = 2
    /\ SearchRaised(1)
    /\ SearchReturned(2) /\ worker[2].outcome.jobs = <<>>
    /\ mock_invoked
    /\ Ids(all_jobs) = {"mock-1", "mock-2", "mock-3"}

\* Every future has been yielded and merged; the fallback has not run yet.
MergeDone == run_pc = "merge" /\ AllYielded

NoDuplicateIds(xs) == \A x, y \in 1..Len(xs) : x # y => xs[x].id # xs[y].id

\* The ids that the searches of all sources returned.
ReturnedIds == UNION {Ids(worker[s].outcome.jobs) : s \in {t \in DOMAIN worker : SearchReturned(t)}}

\* C12: after the merge step, whatever the completion order of the workers, the
\* merged list holds no two jobs with the same id, its ids are the union of the
\* ids returned by all sources, `seen` is the set of ids in the list, and
\* merging the same source outputs again adds no job.
C12_MergeDedupIdempotent ==
    MergeDone =>
        /\ NoDuplicateIds(all_jobs)
        /\ Ids(all_jobs) = ReturnedIds
        /\ seen = Ids(all_jobs)
        /\ \A s \in DOMAIN worker :
              MergeInto(all_jobs, seen, worker[s].value.jobs)
                  = [all_jobs |-> all_jobs, seen |-> seen]

\* Two sources returned overlapping lists, one with a repeated id, and the
\* second source finished first: its jobs are the ones kept.
C12_Witness ==
    /\ MergeDone
    /\ Len(worker) = 2
    /\ SearchReturned(1) /\ SearchReturned(2)
    /\ Len(worker[1].outcome.jobs) = 2 /\ Ids(worker[1].outcome.jobs) = {"a"}
    /\ Len(worker[2].outcome.jobs) = 2 /\ worker[2].outcome.jobs[1].id = "b"
    /\ worker[2].outcome.jobs[2].id = "a"
    /\ all_jobs = worker[2].outcome.jobs

\* C13: source failure isolation.  Whatever subset of the source workers
\* raises during search, the aggregation neither raises nor stops before its
\* end, each failing worker contributes the empty list, and the merged list
\* before truncation holds every job id returned by the workers that did not
\* fail.
C13_SourceFailureIsolated ==
    /\ run_pc # "raised"
    /\ run_pc \in {"merge", "truncate", "filter"} => ENABLED NextRun
    /\ \A s \in DOMAIN worker :
          SearchRaised(s) => worker[s].value = [exc |-> FALSE, jobs |-> <<>>]
    /\ (MergeDone \/ run_pc = "truncate") => ReturnedIds \subseteq Ids(all_jobs)

\* Three sources: the first and the third raised, the second returned jobs a
\* and b, which are the merged list.
C13_Witness ==
    /\ MergeDone
    /\ Len(worker) = 3
    /\ SearchRaised(1) /\ SearchRaised(3)
    /\ SearchReturned(2) /\ Ids(worker[2].outcome.jobs) = {"a", "b"}
    /\ Ids(all_jobs) = {"a", "b"}

IsPrefix(xs, ys) == Len(xs) <= Len(ys) /\ xs = SubSeq(ys, 1, Len(xs))

TruncateStep == run_pc = "truncate" /\ run_pc' = "filter"

FilterStep == run_pc = "filter" /\ run_pc' = "returned"

\* C14: for max_jobs >= 0 the list that run hands on to the filtering step has
\* at most max_jobs entries and is a prefix, in arrival order, of the merged
\* list after the fallback; jobs_found is the length of that truncated list.
\* (The filtering step first drops the ids the tracker already holds and gives
\* the rest to filter_and_rank.)
C14_TruncatedPrefix ==
    /\ [][(TruncateStep /\ max_jobs >= 0) =>
              (Len(all_jobs') <= max_jobs /\ IsPrefix(all_jobs', all_jobs))]_vars
    /\ [][FilterStep =>
              /\ all_jobs' = all_jobs
              /\ result'.jobs_found = Len(all_jobs)
              /\ new_jobs' = NotIn(all_jobs, applied_ids')]_vars
    /\ []((run_pc = "returned" /\ worker # <<>> /\ max_jobs >= 0) =>
              (result.jobs_found = Len(all_jobs) /\ result.jobs_found <= max_jobs))

\* The fallback produced three jobs, max_jobs = 2 cut the third, the tracker
\* already held the second: jobs_found is 2 and one job goes to ranking.
C14_Witness ==
    /\ run_pc = "returned"
    /\ mock_invoked
    /\ max_jobs = 2
    /\ Ids(all_jobs) = {"mock-1", "mock-2"}
    /\ result.jobs_found = 2
    /\ applied_ids = {"mock-2"}
    /\ Ids(new_jobs) = {"mock-1"}

(***************************************************************************)
(* Source adapters (src/src/sources/*.py): search issues its underlying    *)
(* requests one after the other; each request goes through the retry       *)
(* wrapper (src/src/retry.py) around the adapter's fetch method.           *)
(***************************************************************************)

\* str.split() as a list
RECURSIVE SplitListFrom(_, _, _)
SplitListFrom(s, i, word) ==
    IF i > Len(s)
    THEN (IF word = "" THEN <<>> ELSE <<word>>)
    ELSE IF Char(s, i) \in Whitespace
         THEN (IF word = "" THEN <<>> ELSE <<word>>) \o SplitListFrom(s, i + 1, "")
         ELSE SplitListFrom(s, i + 1, word \o Char(s, i))

SplitList(s) == SplitListFrom(s, 1, "")

\* sep.join(xs)
RECURSIVE Join(_, _)
Join(sep, xs) ==
    IF xs = <<>> THEN ""
    ELSE IF Len(xs) = 1 THEN xs[1]
    ELSE xs[1] \o sep \o Join(sep, Tail(xs))

Adapters ==
    {"SerpApiSource", "JSearchSource", "AdzunaSource", "LinkedInRapidSource",
     "RemotiveSource", "MockSource"}

\* max_attempts of the @retry decoration of each adapter's fetch method
max_attempts(a) == IF a = "RemotiveSource" THEN 2 ELSE 3

\* retryable=(requests.RequestException, OSError)
Retryable == {"RequestException", "OSError"}

NoExc == "no exception"

\* What the provider may answer to one HTTP request.  A hit stands for the
\* job id hashed from it.  "badhits" is a 200 answer whose hit list holds
\* something that is not an object.
FailureKinds == {"timeout", "http500", "http401", "http403", "badhits"}

MaxHits == 2

HitLists == UNION {[1..n -> RunIds] : n \in 0..MaxHits}

Responses ==
    {[kind |-> k, hits |-> <<>>] : k \in FailureKinds}
    \cup {[kind |-> "ok", hits |-> h] : h \in HitLists}

JobsOf(a, hits) == [k \in 1..Len(hits) |-> RunJob(hits[k], a)]

\* One call of the fetch method (_fetch, _fetch_location) on a response: the
\* exception it raises or the jobs it returns.  requests raises Timeout (and
\* ConnectionError, which behaves alike) itself, raise_for_status raises
\* HTTPError on 4xx and 5xx (all are RequestException); hit.get on a non-object raises
\* AttributeError.  JSearch and LinkedIn return [] on 403 before
\* raise_for_status; SerpAPI, JSearch and LinkedIn cut the hits to the limit
\* they were given.
Fetch(a, resp, fetch_limit) ==
    IF resp.kind = "timeout"
    THEN [exc |-> "RequestException", jobs |-> <<>>]
    ELSE IF resp.kind = "http403" /\ a \in {"JSearchSource", "LinkedInRapidSource"}
    THEN [exc |-> NoExc, jobs |-> <<>>]
    ELSE IF resp.kind \in {"http500", "http401", "http403"}
    THEN [exc |-> "RequestException", jobs |-> <<>>]
    ELSE IF resp.kind = "badhits"
    THEN [exc |-> "AttributeError", jobs |-> <<>>]
    ELSE IF a \in {"SerpApiSource", "JSearchSource", "LinkedInRapidSource"}
    THEN [exc |-> NoExc, jobs |-> JobsOf(a, Take(resp.hits, fetch_limit))]
    ELSE [exc |-> NoExc, jobs |-> JobsOf(a, resp.hits)]

\* remotive.py
_CATEGORY_MAP ==
    << <<"devops", "devops">>, <<"sre", "devops">>, <<"cloud", "devops">>,
       <<"software", "software-dev">>, <<"engineer", "software-dev">>,
       <<"python", "software-dev">>, <<"product", "product">>, <<"data", "data">>,
       <<"qa", "qa">>, <<"support", "customer-support">>,
       <<"customer", "customer-support">> >>

RECURSIVE _guess_category(_)
_guess_category(texts) ==
    IF texts = <<>> THEN ""
    ELSE LET text == Lower(Head(texts))
             hits == {k \in 1..Len(_CATEGORY_MAP) : Contains(text, _CATEGORY_MAP[k][1])}
         IN  IF hits # {}
             THEN _CATEGORY_MAP[CHOOSE k \in hits : \A m \in hits : k <= m][2]
             ELSE _guess_category(Tail(texts))

GenericWords ==
    {"senior", "junior", "lead", "staff", "principal", "manager", "engineer",
     "specialist", "consultant", "ii", "iii", "iv"}

RECURSIVE Distinctive(_)
Distinctive(words) ==
    IF words = <<>> THEN <<>>
    ELSE IF Head(words) \in GenericWords THEN Distinctive(Tail(words))
    ELSE <<Head(words)>> \o Distinctive(Tail(words))

\* The first distinctive word of each of the first two core roles.
RECURSIVE RoleTerms(_)
RoleTerms(roles) ==
    IF roles = <<>> THEN <<>>
    ELSE LET distinctive == Distinctive(SplitList(Lower(Head(roles))))
         IN  (IF distinctive # <<>> THEN <<distinctive[1]>> ELSE <<>>)
             \o RoleTerms(Tail(roles))

Request(kind, q, loc, fetch_limit) ==
    [kind |-> kind, q |-> q, loc |-> loc, fetch_limit |-> fetch_limit]

\* serpapi.py 74-81
SerpApiQueries(p, q) ==
    LET core == Take(p.core_roles, 4)
        queries == core \o Take(p.stretch_roles, 5 - Len(core))
    IN  IF queries = <<>> THEN <<q>> ELSE queries

\* remotive.py 95-104: the search terms; query.split()[0] raises IndexError on
\* a query of blanks.
RemotiveTermsRaise(p, q) ==
    RoleTerms(Take(p.core_roles, 2)) = <<>> /\ q # "" /\ SplitList(q) = <<>>

RemotiveTerms(p, q) ==
    LET search_terms == RoleTerms(Take(p.core_roles, 2))
    IN  IF search_terms # <<>> THEN search_terms
        ELSE IF q # "" THEN <<SplitList(q)[1]>> ELSE <<"engineer">>

\* The requests a search would issue, in order, before its guards are applied.
Plan(a, p, q, locs, lim) ==
    CASE a = "SerpApiSource" ->
            LET loc_str == IF locs # <<>> THEN locs[1] \o ", India" ELSE "India"
                queries == SerpApiQueries(p, q)
            IN  [k \in 1..Len(queries) |-> Request("query", queries[k], loc_str, 10)]
      [] a = "JSearchSource" ->
            LET three == Take(locs, 3)
            IN  [k \in 1..Len(three) |-> Request("location", q, three[k], lim)]
      [] a = "AdzunaSource" ->
            LET qq == IF p.core_roles # <<>> THEN Join(" OR ", Take(p.core_roles, 3)) ELSE q
                search_locs == IF locs # <<>> THEN Take(locs, 2) ELSE <<"">>
            IN  [k \in 1..Len(search_locs) |->
                    Request("location", qq, search_locs[k], Min(lim, 20))]
      [] a = "LinkedInRapidSource" ->
            LET qq == IF p.core_roles # <<>> THEN Join(" OR ", Take(p.core_roles, 2)) ELSE q
                loc_str == IF locs # <<>> THEN locs[1] ELSE "India"
            IN  <<Request("main", qq, loc_str, lim)>>
                \o (IF p.stretch_roles # <<>>
                    THEN <<Request("stretch", p.stretch_roles[1], loc_str, 10)>> ELSE <<>>)
      [] a = "RemotiveSource" ->
            LET terms == RemotiveTerms(p, q)
                category == _guess_category(p.core_roles \o p.stretch_roles \o p.skills)
            IN  [k \in 1..Len(terms) |-> Request("term", terms[k], "", lim)]
                \o (IF category # "" THEN <<Request("category", category, "", lim)>>
                    ELSE <<>>)
      [] a = "MockSource" -> <<>>

\* Whether the search still issues request r with the jobs js it has: SerpAPI
\* and Adzuna break out of their loop at the limit, LinkedIn tries its stretch
\* role below the limit, Remotive its category when it has nothing.
Guard(a, r, js, lim) ==
    CASE a \in {"SerpApiSource", "AdzunaSource"} -> Len(js) < lim
      [] a = "LinkedInRapidSource" -> r.kind = "main" \/ Len(js) < lim
      [] a = "RemotiveSource" -> r.kind = "term" \/ js = <<>>
      [] OTHER -> TRUE

Collect_DedupEverywhere(a, js, batch) == MergeInto(js, Ids(js), batch).all_jobs

\* How a batch joins the jobs collected so far: JSearch extends its list, the
\* others append the jobs whose id is not in seen_ids.
Collect(a, js, batch) ==
    IF a = "JSearchSource" THEN js \o batch
    ELSE MergeInto(js, Ids(js), batch).all_jobs

\* The request issued next, or the return of search with its slice [:limit].
NextStep(a, pl, i, js, lim) ==
    IF i <= Len(pl) /\ Guard(a, pl[i], js, lim)
    THEN [req |-> i, pc |-> "fetch", returned |-> <<>>]
    ELSE [req |-> 0, pc |-> "returned", returned |-> Slice(js, lim)]

RetryAgain_Never(exc, n, max) == FALSE

\* retry.py 31-54: a retryable exception before the last attempt sleeps and
\* tries again; anything else leaves the wrapper.
RetryAgain(exc, n, max) == exc \in Retryable /\ n < max

AdapterProfile(core_roles, stretch_roles) ==
    [core_roles |-> core_roles, stretch_roles |-> stretch_roles, skills |-> <<>>]

AdapterProfiles ==
    {AdapterProfile(<<>>, <<>>),
     AdapterProfile(<<>>, <<"Data Analyst">>),
     AdapterProfile(<<"Senior Engineer">>, <<>>),
     AdapterProfile(<<"SRE", "DevOps Engineer">>, <<"Data Analyst">>)}

SearchQueries == {"SRE OR Data Analyst", "", " "}

SearchLocationLists == {<<>>, <<"Pune", "Remote">>}

SearchLimits == {1, 3}

InitSearch ==
    /\ adapter \in Adapters
    /\ adapter_profile \in AdapterProfiles
    /\ search_query \in SearchQueries
    /\ search_locations \in SearchLocationLists
    /\ search_limit \in SearchLimits
    /\ plan = <<>>
    /\ req = 0
    /\ attempt = 0
    /\ sleeps = 0
    /\ first_kind = ""
    /\ last_req = <<>>
    /\ search_jobs = <<>>
    /\ returned_jobs = <<>>
    /\ search_pc = "call"
    /\ ScorerIdle
    /\ RegistryIdle
    /\ RunIdle
    /\ TrackerIdle
    /\ AgentIdle
    /\ RetryIdle

\* search up to its first request: the queries are built (Remotive may raise
\* there), the mock returns its samples at once.
SearchStart ==
    /\ search_pc = "call"
    /\ IF adapter = "RemotiveSource" /\ RemotiveTermsRaise(adapter_profile, search_query)
       THEN /\ search_pc' = "raised"
            /\ UNCHANGED <<plan, req, attempt, returned_jobs>>
       ELSE IF adapter = "MockSource"
       THEN /\ returned_jobs' = MockSearch(search_limit)
            /\ search_pc' = "returned"
            /\ UNCHANGED <<plan, req, attempt>>
       ELSE LET pl == Plan(adapter, adapter_profile, search_query, search_locations,
                           search_limit)
                nxt == NextStep(adapter, pl, 1, <<>>, search_limit)
            IN  /\ plan' = pl
                /\ req' = nxt.req
                /\ attempt' = 1
                /\ search_pc' = nxt.pc
                /\ returned_jobs' = nxt.returned
    /\ UNCHANGED <<adapter, adapter_profile, search_query, search_locations, search_limit,
                   sleeps, first_kind, last_req, search_jobs, notSearchVars>>

\* One attempt of the current request inside the retry wrapper, with what
\* follows it: the sleep before the next attempt, or the end of the request
\* (its batch collected, or its exception caught by search) and then the next
\* request or the return of search.
FetchAttempt ==
    /\ search_pc = "fetch"
    /\ \E resp \in Responses :
          LET r == Fetch(adapter, resp, plan[req].fetch_limit)
              first == IF attempt = 1 THEN resp.kind ELSE first_kind
          IN  IF RetryAgain(r.exc, attempt, max_attempts(adapter))
              THEN /\ attempt' = attempt + 1
                   /\ sleeps' = sleeps + 1
                   /\ first_kind' = first
                   /\ UNCHANGED <<req, last_req, search_jobs, returned_jobs, search_pc>>
              ELSE LET js == IF r.exc = NoExc THEN Collect(adapter, search_jobs, r.jobs)
                             ELSE search_jobs
                       nxt == NextStep(adapter, plan, req + 1, js, search_limit)
                   IN  /\ last_req' = [first_kind |-> first, attempts |-> attempt,
                                       sleeps |-> sleeps, exc |-> r.exc,
                                       added |-> Len(js) - Len(search_jobs)]
                       /\ search_jobs' = js
                       /\ req' = nxt.req
                       /\ attempt' = 1
                       /\ sleeps' = 0
                       /\ first_kind' = ""
                       /\ search_pc' = nxt.pc
                       /\ returned_jobs' = nxt.returned
    /\ UNCHANGED <<adapter, adapter_profile, search_query, search_locations, search_limit,
                   plan, notSearchVars>>

NextSearch == SearchStart \/ FetchAttempt

SpecSearch == InitSearch /\ [][NextSearch]_vars

(***************************************************************************)
(* Properties of the source adapters                                       *)
(***************************************************************************)

\* The last finished request ended in an exception (after its retries, or at
\* once), which search caught.
LastRequestFailed == last_req # <<>> /\ last_req.exc # NoExc

\* search has returned, within its limit, the first jobs it collected; no
\* request took a collected job away, and a failed one added nothing.
ReturnsCollectedWithinLimit ==
    /\ search_pc = "returned" =>
          /\ Len(returned_jobs) <= search_limit
          /\ adapter # "MockSource" => returned_jobs = Take(search_jobs, search_limit)
          /\ (adapter # "MockSource" /\ plan = <<>>) => returned_jobs = <<>>
    /\ last_req # <<>> => last_req.added >= 0
    /\ LastRequestFailed => last_req.added = 0

\* C16: for every adapter and every positive limit, search returns normally
\* with at most limit jobs in every case, also when its fetches raise after
\* their retries; a failed query adds nothing and discards nothing.
C16_SearchReturnsNormally ==
    /\ search_pc # "raised"
    /\ ReturnsCollectedWithinLimit

BlankQuery ==
    /\ search_query # ""
    /\ \A i \in 1..Len(search_query) : Char(search_query, i) \in Whitespace

\* The rest of C16 holds as stated: a search that got past its query
\* building never raises, and every search but Remotive's on a blank query
\* gets past it.
C16_OnlyBlankRemotiveQueryRaises ==
    /\ search_pc = "raised" => (adapter = "RemotiveSource" /\ BlankQuery)
    /\ ReturnsCollectedWithinLimit

\* When every fetch of a search failed, nothing was collected: jobs are only
\* ever added by a request that ended without an exception.
C16_JobsOnlyFromSuccessfulFetch ==
    [][search_jobs' # search_jobs =>
          (last_req'.exc = NoExc /\ IsPrefix(search_jobs, search_jobs'))]_vars

MultiQueryAdapters ==
    {"SerpApiSource", "JSearchSource", "AdzunaSource", "LinkedInRapidSource",
     "RemotiveSource"}

\* C17: every adapter that issues several underlying queries deduplicates its
\* own results: the list search returns never holds two jobs with the same id
\* (SerpAPI, JSearch, Adzuna, LinkedIn, Remotive).
C17_SearchResultHasDistinctIds ==
    (search_pc = "returned" /\ adapter \in MultiQueryAdapters) =>
        NoDuplicateIds(returned_jobs)

\* The four adapters that keep seen_ids do return distinct ids.
C17_DistinctIdsExceptJSearch ==
    (search_pc = "returned" /\ adapter \in MultiQueryAdapters \ {"JSearchSource"}) =>
        NoDuplicateIds(returned_jobs)

AuthRejections == {"http401", "http403"}

\* C18: only transient failures are retried.  A request rejected for
\* authentication (HTTP 401 or 403) is attempted exactly once, without a
\* backoff sleep, and contributes nothing; a transient failure is attempted up
\* to the adapter's max_attempts.
C18_OnlyTransientRetried ==
    /\ attempt <= max_attempts(adapter)
    /\ last_req # <<>> =>
          /\ last_req.first_kind \in AuthRejections =>
                (last_req.attempts = 1 /\ last_req.sleeps = 0 /\ last_req.added = 0)
          /\ (last_req.first_kind \in {"timeout", "http500"} /\ last_req.exc \in Retryable)
                => last_req.attempts = max_attempts(adapter)

\* What the code does instead: the retry decision follows the exception class.
\* A request is attempted again, after one sleep per failed attempt, for every
\* RequestException (a 401 and, for SerpAPI, Adzuna and Remotive, a 403 among
\* them) until max_attempts; a 403 at JSearch and LinkedIn and an exception of
\* another class end the request at once with nothing added.
C18_RetryFollowsExceptionClass ==
    /\ attempt <= max_attempts(adapter)
    /\ sleeps = (IF search_pc = "fetch" THEN attempt - 1 ELSE 0)
    /\ last_req # <<>> =>
          /\ last_req.sleeps = last_req.attempts - 1
          /\ last_req.exc \in Retryable => last_req.attempts = max_attempts(adapter)
          /\ last_req.exc = "AttributeError" => last_req.added = 0
          /\ (last_req.first_kind = "badhits"
                \/ (last_req.first_kind = "http403"
                      /\ adapter \in {"JSearchSource", "LinkedInRapidSource"}))
                => (last_req.attempts = 1 /\ last_req.added = 0)

(***************************************************************************)
(* score_job on partially populated jobs: a provider may answer null for a *)
(* field, which reaches Job as None.                                       *)
(***************************************************************************)

PartialTitles == {None, "", "SRE", "SRE - 30 LPA"}

PartialDescriptions == {None, "", "Kubernetes, 8+ years, salary 30 LPA"}

PartialLocations == {None, "", "Pune"}

PartialJobs ==
    [id : {"j"}, title : PartialTitles, description : PartialDescriptions,
     location : PartialLocations]

PartialProfiles ==
    [skills : {<<>>, <<"Kubernetes">>}, level : {"senior"}, core_roles : {<<"SRE">>},
     stretch_roles : {<<>>}, locations : {<<"Pune">>}, salary_lpa : SalaryConfigs]

InitPartial ==
    /\ job \in PartialJobs
    /\ profile \in PartialProfiles
    /\ sj = NotScored
    /\ jobs = <<>>
    /\ min_score = 0
    /\ scored = <<>>
    /\ ranked = <<>>
    /\ pc = "call"
    /\ OthersIdleForScorer

SpecPartial == InitPartial /\ [][Next]_vars

Missing(x) == x = None \/ x = ""

PartiallyPopulated(j) == Missing(j.title) \/ Missing(j.description) \/ Missing(j.location)

OrEmpty(x) == IF x = None THEN "" ELSE x

\* The job with the empty string in place of each missing field.
Filled(j) ==
    [id |-> j.id, title |-> OrEmpty(j.title), description |-> OrEmpty(j.description),
     location |-> OrEmpty(j.location)]

\* C19: score_job never raises for a partially populated job: for every
\* profile, with or without a salary range, and every job whose title,
\* description or location is None or empty, it returns a ScoredJob that treats
\* the missing field as the empty string.
C19_PartialJobScored ==
    (pc = "returned" /\ PartiallyPopulated(job)) =>
        /\ ~sj.raised
        /\ LET filled == score_job(Filled(job), profile)
           IN  /\ sj.score = filled.score
               /\ sj.match_reasons = filled.match_reasons
               /\ sj.keyword_suggestions = filled.keyword_suggestions

SalaryRangeConfigured(p) ==
    /\ p.salary_lpa.compare_only_when_listed
    /\ p.salary_lpa.min # NoneInt
    /\ p.salary_lpa.max # NoneInt

\* What holds instead: score_job raises exactly when the description is None,
\* a salary range is configured and the title carries a salary marker (the
\* job passing both hard filters); otherwise the missing fields count as
\* empty strings.
C19_RaisesOnlyInSalaryBranch ==
    pc = "returned" =>
        /\ sj.raised <=>
              /\ job.description = None
              /\ SalaryRangeConfigured(profile)
              /\ \E k \in 1..Len(SALARY_MARKERS) :
                    Contains(Lower(OrEmpty(job.title)), SALARY_MARKERS[k])
              /\ PassesHardFilters(job, profile)
        /\ ~sj.raised =>
              LET filled == score_job(Filled(job), profile)
              IN  /\ sj.score = filled.score
                  /\ sj.match_reasons = filled.match_reasons
                  /\ sj.keyword_suggestions = filled.keyword_suggestions

(***************************************************************************)
(* Tracker (src/src/tracker.py): record_application and update_status      *)
(* called by separate processes on one applications.csv that exists.  The  *)
(* file is its list of lines, header first; every line has the same width, *)
(* so a write at offset 0 replaces as many lines as it holds.  A line      *)
(* written through csv goes to the buffer of the Python file object and    *)
(* reaches the file when the object is closed, at the end of the with      *)
(* block, unless the data outgrows the buffer and is flushed at the write. *)
(***************************************************************************)

NumProcs == 2

Procs == 1..NumProcs

HEADERS == [job_id |-> "job_id", title |-> "title", status |-> "status"]

TrackerRow(job_id, status) == [job_id |-> job_id, title |-> "T-" \o job_id, status |-> status]

\* The job each process would record.
RecordIds == <<"x", "y", "z", "w">>

TrackerCalls(p) ==
    {[op |-> "record_application", job_id |-> RecordIds[p], status |-> "suggested"],
     [op |-> "update_status", job_id |-> "a", status |-> "applied"],
     [op |-> "update_status", job_id |-> "absent", status |-> "applied"],
     [op |-> "get_applications", job_id |-> "", status |-> ""]}

\* csv.DictReader: the lines after the header line, none when the first line
\* is not the header (no line then has a job_id key).
ReadRows(f) == IF f # <<>> /\ f[1] = HEADERS THEN Tail(f) ELSE <<>>

\* update_status 88-93: the first row of the job gets the status.
RECURSIVE SetStatus(_, _, _)
SetStatus(rows, job_id, status) ==
    IF rows = <<>> THEN <<>>
    ELSE IF Head(rows).job_id = job_id
    THEN <<[Head(rows) EXCEPT !.status = status]>> \o Tail(rows)
    ELSE <<Head(rows)>> \o SetStatus(Tail(rows), job_id, status)

\* A write of lines at offset 0 of the file.
Overwrite(f, lines) == lines \o SubSeq(f, Len(lines) + 1, Len(f))

\* fcntl.flock: an exclusive lock needs every other process to hold none, a
\* shared lock needs no other process to hold an exclusive one.
CanLockEx(p) == \A q \in Procs \ {p} : flock[q] = "none"

CanLockSh(p) == \A q \in Procs \ {p} : flock[q] # "ex"

InitTracker ==
    /\ file = <<HEADERS, TrackerRow("a", "suggested")>>
    /\ flock = [p \in Procs |-> "none"]
    /\ proc \in {pr \in [Procs -> [op : {"record_application", "update_status",
                                         "get_applications"},
                                   job_id : {"a", "absent", ""} \cup Range(RecordIds),
                                   status : {"suggested", "applied", ""},
                                   pc : {"start"}, rows : {<<>>}, buf : {<<>>},
                                   before : {{}}, returned : {"running"}]] :
                    \A p \in Procs :
                        [op |-> pr[p].op, job_id |-> pr[p].job_id, status |-> pr[p].status]
                            \in TrackerCalls(p)}
    /\ ScorerIdle
    /\ RegistryIdle
    /\ RunIdle
    /\ SearchIdle
    /\ AgentIdle
    /\ RetryIdle

Step(p, to) == [proc EXCEPT ![p].pc = to]

\* record_application 53-65: ensure_tracker finds the file, the row is built,
\* the file is opened for appending and locked.
RecLock(p) ==
    /\ proc[p].op = "record_application" /\ proc[p].pc = "start"
    /\ CanLockEx(p)
    /\ flock' = [flock EXCEPT ![p] = "ex"]
    /\ proc' = Step(p, "write")
    /\ UNCHANGED <<file, notTrackerVars>>

\* Line 66: writerow puts the line in the buffer.
RecWrite(p) ==
    /\ proc[p].op = "record_application" /\ proc[p].pc = "write"
    /\ proc' = [proc EXCEPT ![p].pc = "unlock",
                            ![p].buf = <<TrackerRow(proc[p].job_id, proc[p].status)>>]
    /\ UNCHANGED <<file, flock, notTrackerVars>>

\* Line 67 (and 101)
Unlock(p) ==
    /\ proc[p].pc = "unlock"
    /\ flock' = [flock EXCEPT ![p] = "none"]
    /\ proc' = Step(p, "close")
    /\ UNCHANGED <<file, notTrackerVars>>

\* End of the with block at 64-67: the buffer is appended to the file, the
\* call returns.
RecClose(p) ==
    /\ proc[p].op = "record_application" /\ proc[p].pc = "close"
    /\ file' = file \o proc[p].buf
    /\ proc' = [proc EXCEPT ![p].pc = "done", ![p].buf = <<>>, ![p].returned = "None"]
    /\ UNCHANGED <<flock, notTrackerVars>>

\* The jobs whose rows were completely written when a read begins: the row
\* the file starts with and the rows of the record_application calls that
\* have returned.
WrittenBefore ==
    {"a"} \cup {proc[q].job_id :
                   q \in {r \in Procs : /\ proc[r].op = "record_application"
                                        /\ proc[r].pc = "done"}}

\* update_status 86-87, get_applications 72-74: the file is opened for
\* reading under a shared lock.
ReadLock(p) ==
    /\ proc[p].op \in {"update_status", "get_applications"} /\ proc[p].pc = "start"
    /\ CanLockSh(p)
    /\ flock' = [flock EXCEPT ![p] = "sh"]
    /\ proc' = [proc EXCEPT ![p].pc = "read", ![p].before = WrittenBefore]
    /\ UNCHANGED <<file, notTrackerVars>>

\* get_applications 75-77: the rows are read and the lock released; the call
\* returns them, to update_status or to its own caller.
Read(p) ==
    /\ proc[p].op \in {"update_status", "get_applications"} /\ proc[p].pc = "read"
    /\ flock' = [flock EXCEPT ![p] = "none"]
    /\ proc' = [proc EXCEPT
                   ![p].pc = IF proc[p].op = "update_status" THEN "modify" ELSE "done",
                   ![p].rows = ReadRows(file),
                   ![p].returned = IF proc[p].op = "update_status" THEN @ ELSE "rows"]
    /\ UNCHANGED <<file, notTrackerVars>>

\* update_status 88-96: without a row of the job the call returns False, else
\* the row is changed in memory and the file opened for writing, which
\* empties it.
Modify(p) ==
    /\ proc[p].op = "update_status" /\ proc[p].pc = "modify"
    /\ IF \E k \in 1..Len(proc[p].rows) : proc[p].rows[k].job_id = proc[p].job_id
       THEN /\ proc' = [proc EXCEPT
                           ![p].pc = "lock",
                           ![p].rows = SetStatus(proc[p].rows, proc[p].job_id,
                                                 proc[p].status)]
            /\ file' = <<>>
       ELSE /\ proc' = [proc EXCEPT ![p].pc = "done", ![p].returned = "False"]
            /\ UNCHANGED file
    /\ UNCHANGED <<flock, notTrackerVars>>

\* Line 97
WriteLock(p) ==
    /\ proc[p].op = "update_status" /\ proc[p].pc = "lock"
    /\ CanLockEx(p)
    /\ flock' = [flock EXCEPT ![p] = "ex"]
    /\ proc' = Step(p, "write")
    /\ UNCHANGED <<file, notTrackerVars>>

\* Lines 98-100: header and rows go to the buffer, or straight to the file
\* when they outgrow it.
Write(p) ==
    /\ proc[p].op = "update_status" /\ proc[p].pc = "write"
    /\ LET lines == <<HEADERS>> \o proc[p].rows
       IN  \/ /\ proc' = [proc EXCEPT ![p].pc = "unlock", ![p].buf = lines]
              /\ UNCHANGED file
           \/ /\ proc' = Step(p, "unlock")
              /\ file' = Overwrite(file, lines)
    /\ UNCHANGED <<flock, notTrackerVars>>

\* End of the with block at 96-101: the buffer is written at offset 0, the
\* call returns True.
Close(p) ==
    /\ proc[p].op = "update_status" /\ proc[p].pc = "close"
    /\ file' = Overwrite(file, proc[p].buf)
    /\ proc' = [proc EXCEPT ![p].pc = "done", ![p].buf = <<>>, ![p].returned = "True"]
    /\ UNCHANGED <<flock, notTrackerVars>>

NextTracker ==
    \E p \in Procs :
        \/ RecLock(p)
        \/ RecWrite(p)
        \/ Unlock(p)
        \/ RecClose(p)
        \/ ReadLock(p)
        \/ Read(p)
        \/ Modify(p)
        \/ WriteLock(p)
        \/ Write(p)
        \/ Close(p)

SpecTracker == InitTracker /\ [][NextTracker]_vars

\* Vocabulary of the tracker claim.
AllCallsFinished == \A p \in Procs : proc[p].pc = "done"

Appended(p) == proc[p].op = "record_application" /\ proc[p].returned = "None"

RowPresent(p) ==
    \E k \in 1..Len(file) :
        /\ file[k].job_id = proc[p].job_id
        /\ file[k].title = TrackerRow(proc[p].job_id, proc[p].status).title

StatusWritten(p) == proc[p].op = "update_status" /\ proc[p].returned = "True"

\* C20: under any interleaving of record_application and update_status calls
\* of different processes on one applications.csv, every row appended by a
\* record_application call that has returned is in the file, fields intact,
\* once all calls have finished: the read-modify-write of update_status loses
\* no concurrently appended row.
C20_NoAppendedRowLost ==
    AllCallsFinished => \A p \in Procs : Appended(p) => RowPresent(p)

\* What the locks do give: an exclusive holder is the only holder.
C20_ExclusiveLockExcludes ==
    \A p, q \in Procs : (p # q /\ flock[p] = "ex") => flock[q] = "none"

\* Without an update_status call that rewrites the file, appended rows stay.
C20_AppendsAloneKeepRows ==
    (AllCallsFinished /\ \A q \in Procs : ~StatusWritten(q))
        => \A p \in Procs : Appended(p) => RowPresent(p)

(***************************************************************************)
(* Whole runs of the agent (src/src/agent.py run, 45-180), one after the   *)
(* other on the same profile file and the same applications.csv.  Step 1   *)
(* (search, merge, truncation) is the list of jobs it ends with; score_job *)
(* is the score it gives each job under the profile, the same in each run. *)
(***************************************************************************)

MaxRuns == 2

\* A key of profile.yaml: missing, present with a null value, or a list.
NoKey == [has |-> FALSE, null |-> FALSE, v |-> <<>>]

NullValue == [has |-> TRUE, null |-> TRUE, v |-> <<>>]

ListValue(v) == [has |-> TRUE, null |-> FALSE, v |-> v]

ProfileFile(preferred_roles, core_roles, stretch_roles, min_score_auto_apply) ==
    [preferred_roles |-> preferred_roles, core_roles |-> core_roles,
     stretch_roles |-> stretch_roles, min_score_auto_apply |-> min_score_auto_apply]

\* config.py 24-40.  list(None) raises TypeError.
load_profile(d) ==
    LET migrated ==
            IF d.preferred_roles.has /\ ~d.core_roles.has
            THEN [d EXCEPT !.core_roles = d.preferred_roles,
                           !.preferred_roles = NoKey,
                           !.stretch_roles = IF @.has THEN @ ELSE ListValue(<<>>)]
            ELSE d
    IN  IF migrated.preferred_roles.has
        THEN [raised |-> FALSE, profile |-> migrated]
        ELSE IF migrated.core_roles.null \/ migrated.stretch_roles.null
        THEN [raised |-> TRUE, profile |-> migrated]
        ELSE [raised |-> FALSE,
              profile |-> [migrated EXCEPT !.preferred_roles =
                              ListValue(migrated.core_roles.v \o migrated.stretch_roles.v)]]

\* The guard left out: no profile counts as one without roles.
NoRoles_Never(p) == FALSE

\* agent.py 50: not profile.get("preferred_roles")
NoRoles(p) ==
    ~p.preferred_roles.has \/ p.preferred_roles.null \/ p.preferred_roles.v = <<>>

\* agent.py 52-57
NothingToSearch ==
    [jobs_found |-> 0, scored_count |-> 0, cover_letters_generated |-> 0,
     browser_applied |-> 0, report_path |-> None]

\* agent.py 62: profile.get("min_score_auto_apply", 0.75)
auto_apply_min(p) ==
    IF p.min_score_auto_apply = NoneInt THEN 75 ELSE p.min_score_auto_apply

\* agent.py 61
list_min(a) == IF a.min_score = NoneInt THEN 20 ELSE a.min_score

\* The score score_job gives each job under the profile.
JobScore == [a |-> 90, b |-> 50]

AgentIds == DOMAIN JobScore

ScoredOf(js) == [k \in 1..Len(js) |-> [job |-> js[k], score |-> JobScore[js[k].id]]]

\* What step 1 may end with: jobs of distinct ids in any order.
FoundLists ==
    {<<>>} \cup {<<[id |-> x]>> : x \in AgentIds}
    \cup {<<[id |-> x], [id |-> y]>> : <<x, y>> \in {z \in AgentIds \X AgentIds : z[1] # z[2]}}

ProfileFiles ==
    {ProfileFile(NoKey, NoKey, NoKey, NoneInt),
     ProfileFile(ListValue(<<>>), NoKey, NoKey, NoneInt),
     ProfileFile(NoKey, ListValue(<<>>), ListValue(<<>>), NoneInt),
     ProfileFile(NullValue, NoKey, NoKey, NoneInt),
     ProfileFile(NoKey, NullValue, NoKey, NoneInt),
     ProfileFile(NullValue, ListValue(<<"SRE">>), NoKey, NoneInt),
     ProfileFile(ListValue(<<"SRE">>), NoKey, NoKey, NoneInt),
     ProfileFile(NoKey, ListValue(<<"SRE">>), ListValue(<<>>), 40),
     ProfileFile(NoKey, ListValue(<<"SRE">>), NoKey, 0)}

RunArgs ==
    [top_letters : {-1, 0, 1, 10}, generate_letters : BOOLEAN, auto_apply : BOOLEAN,
     write_report : BOOLEAN, min_score : {NoneInt, 60}]

TrackerRows(ids) == [k \in 1..Len(ids) |-> [job_id |-> ids[k], status |-> "suggested"]]

TrackedIds(rows) == {rows[k].job_id : k \in 1..Len(rows)}

\* The locals of a run at its call.
NewRun(no, a) ==
    [no |-> no, pc |-> "start", args |-> a, profile |-> <<>>, constructed |-> FALSE,
     tracked |-> <<>>, all_jobs |-> <<>>, applied_ids |-> {}, scored |-> <<>>, i |-> 0,
     cover_paths |-> {}, to_apply |-> <<>>, applied_job_ids |-> {},
     browser_applied |-> 0, result |-> <<>>]

InitAgent ==
    /\ data \in ProfileFiles
    /\ tracker \in {TrackerRows(<<>>), TrackerRows(<<"a">>)}
    /\ reports = 0
    /\ succeeded = {}
    /\ \E a \in RunArgs : run = NewRun(1, a)
    /\ ScorerIdle
    /\ RegistryIdle
    /\ RunIdle
    /\ SearchIdle
    /\ TrackerIdle
    /\ RetryIdle

\* Lines 45-57: the tracker file exists, the profile is loaded; without roles
\* the run returns at once.
AgentStart ==
    /\ run.pc = "start"
    /\ LET loaded == load_profile(data)
       IN  run' = IF loaded.raised THEN [run EXCEPT !.pc = "raised"]
                  ELSE IF NoRoles(loaded.profile)
                  THEN [run EXCEPT !.pc = "returned", !.profile = loaded.profile,
                                   !.tracked = tracker, !.result = NothingToSearch]
                  ELSE [run EXCEPT !.pc = "search", !.profile = loaded.profile,
                                   !.tracked = tracker]
    /\ UNCHANGED <<data, tracker, reports, succeeded, notAgentVars>>

\* Lines 59-96: the sources are built and searched, the jobs not yet tracked
\* are scored and ranked.
AgentSearch ==
    /\ run.pc = "search"
    /\ \E found \in FoundLists :
          LET applied == TrackedIds(tracker)
          IN  run' = [run EXCEPT
                         !.pc = "letters", !.constructed = TRUE, !.all_jobs = found,
                         !.applied_ids = applied,
                         !.scored = filter_and_rank(ScoredOf(NotIn(found, applied)),
                                                    list_min(run.args)),
                         !.i = 1]
    /\ UNCHANGED <<data, tracker, reports, succeeded, notAgentVars>>

\* Lines 100-109, one turn of the loop over scored[:top_letters].
AgentLetter ==
    /\ run.pc = "letters"
    /\ run.i <= Len(Slice(run.scored, run.args.top_letters))
    /\ LET id == run.scored[run.i].job.id
       IN  IF id \in run.applied_ids \/ ~run.args.generate_letters
           THEN /\ run' = [run EXCEPT !.i = @ + 1]
                /\ UNCHANGED tracker
           ELSE /\ run' = [run EXCEPT !.i = @ + 1, !.cover_paths = @ \cup {id},
                                      !.applied_ids = @ \cup {id}]
                /\ tracker' = tracker \o TrackerRows(<<id>>)
    /\ UNCHANGED <<data, reports, succeeded, notAgentVars>>

RECURSIVE AppliedIn(_, _, _)
\* browser_apply.py 132-134 over the batch: update_status(job_id, "applied")
\* for every job whose application succeeded.
AppliedIn(rows, batch, oks) ==
    IF batch = <<>> THEN rows
    ELSE AppliedIn(IF Head(batch).job.id \in oks
                   THEN SetStatus(rows, Head(batch).job.id, "applied") ELSE rows,
                   Tail(batch), oks)

\* Lines 112-131: the jobs at or above the auto-apply threshold go to
\* apply_via_browser, which succeeds for some of them and returns its
\* results, or raises after them.
AgentApply ==
    /\ run.pc = "letters"
    /\ run.i > Len(Slice(run.scored, run.args.top_letters))
    /\ LET batch == IF run.args.auto_apply /\ auto_apply_min(run.profile) > 0
                    THEN AboveThreshold(run.scored, auto_apply_min(run.profile))
                    ELSE <<>>
       IN  \E oks \in SUBSET Ids([k \in 1..Len(batch) |-> batch[k].job]),
              raises \in {r \in BOOLEAN : r => batch # <<>>} :
              /\ tracker' = AppliedIn(tracker, batch, oks)
              /\ succeeded' = succeeded \cup (IF raises THEN {} ELSE oks)
              /\ run' = [run EXCEPT
                            !.pc = "report", !.to_apply = batch,
                            !.applied_job_ids = IF raises THEN {} ELSE oks,
                            !.browser_applied = IF raises THEN 0 ELSE Cardinality(oks)]
    /\ UNCHANGED <<data, reports, notAgentVars>>

\* Lines 136-180: the report is written when asked for, the counts returned.
AgentFinish ==
    /\ run.pc = "report"
    /\ reports' = IF run.args.write_report THEN reports + 1 ELSE reports
    /\ run' = [run EXCEPT
                  !.pc = "returned",
                  !.result = [jobs_found |-> Len(run.all_jobs),
                              scored_count |-> Len(run.scored),
                              cover_letters_generated |-> Cardinality(run.cover_paths),
                              browser_applied |-> run.browser_applied,
                              report_path |-> IF run.args.write_report THEN "report"
                                              ELSE None]]
    /\ UNCHANGED <<data, tracker, succeeded, notAgentVars>>

\* The next run starts once this one has returned.
AgentNextRun ==
    /\ run.pc = "returned"
    /\ run.no < MaxRuns
    /\ \E a \in RunArgs : run' = NewRun(run.no + 1, a)
    /\ UNCHANGED <<data, tracker, reports, succeeded, notAgentVars>>

NextAgent ==
    \/ AgentStart
    \/ AgentSearch
    \/ AgentLetter
    \/ AgentApply
    \/ AgentFinish
    \/ AgentNextRun

SpecAgent == InitAgent /\ [][NextAgent]_vars

\* Vocabulary of the claims on whole runs.
ProfileLoaded == ~load_profile(data).raised

\* The loaded profile lists no role to search for.
NoRolesConfigured ==
    /\ ProfileLoaded
    /\ LET roles == load_profile(data).profile.preferred_roles
       IN  roles.null \/ roles.v = <<>>

RunReturned == run.pc = "returned"

\* C21: when the loaded profile has no roles configured, run returns, without
\* raising, a result with jobs_found, scored_count, cover_letters_generated
\* and browser_applied 0 and report_path None; no source is constructed or
\* searched, no tracker row appended and no report written.
C21_NoRolesNothingToSearch ==
    NoRolesConfigured =>
        /\ run.pc \in {"start", "returned"}
        /\ ~run.constructed
        /\ reports = 0
        /\ RunReturned =>
              /\ run.result = NothingToSearch
              /\ tracker = run.tracked

C21_Witness ==
    /\ NoRolesConfigured
    /\ RunReturned
    /\ run.no = MaxRuns
    /\ run.args.write_report
    /\ run.result.jobs_found = 0 /\ run.result.report_path = None

(***************************************************************************)
(* _best_role_match on titles and role lists in which several roles reach  *)
(* the same value                                                          *)
(***************************************************************************)

RoleTitles ==
    {"SRE Engineer", "Site Reliability Lead", "Accountant", "Senior DevOps Engineer"}

RoleDescriptions == {"", "We need an SRE or DevOps Engineer", "site reliability engineer"}

RoleCoreLists ==
    {<<>>, <<"SRE", "Engineer">>, <<"Engineer", "SRE">>,
     <<"Site Reliability Engineer", "Site Reliability Manager">>,
     <<"Site Reliability Manager", "Site Reliability Engineer">>}

RoleStretchLists == {<<>>, <<"DevOps Engineer">>, <<"DevOps Engineer", "Engineer">>, <<"SRE">>}

InitRole ==
    /\ job \in [id : {"j"}, title : RoleTitles, description : RoleDescriptions,
                location : {"Pune"}]
    /\ profile \in [skills : {<<>>}, level : {"senior"}, core_roles : RoleCoreLists,
                    stretch_roles : RoleStretchLists, locations : {<<"Pune">>},
                    salary_lpa : {NoSalary}]
    /\ sj = NotScored
    /\ jobs = <<>>
    /\ min_score = 0
    /\ scored = <<>>
    /\ ranked = <<>>
    /\ pc = "call"
    /\ OthersIdleForScorer

SpecRole == InitRole /\ [][Next]_vars

\* Vocabulary of the claim: the value of a role's strongest applicable rule.
Largest(S) == CHOOSE x \in S : \A y \in S : y <= x

RuleValue(j, role, in_title, by_overlap, in_desc) ==
    LET title  == _normalize(j.title)
        words  == SplitWords(Lower(role))
        shared == words \cap SplitWords(title)
        substring == Contains(title, Lower(role))
        overlap   == /\ words # {}
                     /\ 10 * Cardinality(shared) >= 6 * Cardinality(words)
                     /\ Cardinality(shared) >= 2 \/ Cardinality(words) = 1
        desc_only == ~substring /\ Contains(_normalize(j.description), Lower(role))
    IN  Largest({0} \cup (IF substring THEN {in_title} ELSE {})
                    \cup (IF overlap THEN {by_overlap} ELSE {})
                    \cup (IF desc_only THEN {in_desc} ELSE {}))

\* The roles in listing order, core before stretch, each with its value.
ListedRoles(j, p) ==
    [k \in 1..Len(p.core_roles) |->
        [role |-> p.core_roles[k], tier |-> "core",
         score |-> RuleValue(j, p.core_roles[k], 40, 35, 15)]]
    \o [k \in 1..Len(p.stretch_roles) |->
        [role |-> p.stretch_roles[k], tier |-> "stretch",
         score |-> RuleValue(j, p.stretch_roles[k], 20, 18, 8)]]

LargestValue(listed) == Largest({0} \cup {listed[k].score : k \in 1..Len(listed)})

RECURSIVE MergedInSubmissionOrder(_)
MergedInSubmissionOrder(n) ==
    IF n = 0 THEN <<>>
    ELSE LET before == MergedInSubmissionOrder(n - 1)
         IN  MergeInto(before, Ids(before), worker[n].value.jobs).all_jobs

WithFallback(merged) == IF merged = <<>> THEN MockSearch(15) ELSE merged

SubmissionOrderOutcome ==
    Slice(WithFallback(MergedInSubmissionOrder(Len(worker))), max_jobs)

\* C23: for fixed outputs of the sources and a fixed max_jobs, the set of job
\* ids that run passes on to scoring, after dedup, fallback and truncation to
\* max_jobs, is the same for every completion order of the workers (here: the
\* same as in submission order).
C23_OutcomeInsensitiveToRace ==
    max_jobs >= 0 =>
        /\ run_pc = "filter" => Ids(all_jobs) = Ids(SubmissionOrderOutcome)
        /\ (run_pc = "returned" /\ worker # <<>>) =>
              Ids(new_jobs) = Ids(NotIn(SubmissionOrderOutcome, applied_ids))

\* What does hold: before the truncation the set of ids is the same for every
\* completion order, and so is the outcome whenever the truncation drops no job.
C23_MergedIdsInsensitiveToRace ==
    /\ run_pc = "truncate" =>
          Ids(all_jobs) = Ids(WithFallback(MergedInSubmissionOrder(Len(worker))))
    /\ (run_pc = "filter" /\ max_jobs >= Cardinality(ReturnedIds) /\ max_jobs >= 3) =>
          Ids(all_jobs) = Ids(SubmissionOrderOutcome)

(***************************************************************************)
(* One call of a function wrapped by retry (src/src/retry.py 13-59).       *)
(* Delays are in milliseconds; 0.5 + random.random() is a percentage from  *)
(* 50 up to, not including, 150.                                           *)
(***************************************************************************)

MaxAttempts == 3

RECURSIVE Power(_, _)
Power(b, e) == IF e = 0 THEN 1 ELSE b * Power(b, e - 1)

\* Lines 41-43
backoff(a, n) == Min(a.base_delay * Power(a.backoff_factor, n - 1), a.max_delay)

JitterPercents == {50, 100, 149}

\* Lines 44-45
jittered(a, d, percent) == IF a.jitter THEN (d * percent) \div 100 ELSE d

\* What one call of the wrapped function does: return, raise an exception of
\* a class in `retryable`, raise another one.
CallOutcomes == {NoExc, "RequestException", "ValueError"}

RetryArgs ==
    [max_attempts : 0..MaxAttempts, base_delay : {1000, 1500}, max_delay : {30000, 2000},
     backoff_factor : {1, 2}, jitter : BOOLEAN]

InitRetry ==
    /\ retry_args \in RetryArgs
    /\ wrapper = [pc |-> "loop", attempt |-> 1, calls |-> <<>>, sleeps |-> <<>>,
                  exc |-> NoExc]
    /\ ScorerIdle
    /\ RegistryIdle
    /\ RunIdle
    /\ SearchIdle
    /\ TrackerIdle
    /\ AgentIdle

\* Lines 28-40: one attempt.  The value of the call is returned, an exception
\* outside `retryable` or on the last attempt leaves the wrapper.
CallWrapped ==
    /\ wrapper.pc = "loop"
    /\ wrapper.attempt <= retry_args.max_attempts
    /\ \E o \in CallOutcomes :
          wrapper' = [wrapper EXCEPT
                         !.calls = Append(@, o),
                         !.exc = o,
                         !.pc = IF o = NoExc THEN "returned"
                                ELSE IF RetryAgain(o, wrapper.attempt,
                                                   retry_args.max_attempts)
                                THEN "backoff" ELSE "raised"]
    /\ UNCHANGED <<retry_args, notRetryVars>>

\* Lines 41-54: the delay is computed and slept, the next attempt follows.
SleepBeforeRetry ==
    /\ wrapper.pc = "backoff"
    /\ \E percent \in JitterPercents :
          wrapper' = [wrapper EXCEPT
                         !.sleeps = Append(@, jittered(retry_args,
                                                       backoff(retry_args, wrapper.attempt),
                                                       percent)),
                         !.attempt = @ + 1,
                         !.pc = "loop"]
    /\ UNCHANGED <<retry_args, notRetryVars>>

\* Line 55, reached when the loop made no attempt: raise last_exc with
\* last_exc None is a TypeError.
RaiseLast ==
    /\ wrapper.pc = "loop"
    /\ wrapper.attempt > retry_args.max_attempts
    /\ wrapper' = [wrapper EXCEPT !.pc = "raised", !.exc = "TypeError"]
    /\ UNCHANGED <<retry_args, notRetryVars>>

NextRetry ==
    \/ CallWrapped
    \/ SleepBeforeRetry
    \/ RaiseLast

SpecRetry == InitRetry /\ [][NextRetry]_vars

\* The wrapped function returns or raises, and a sleep ends.
FairSpecRetry == SpecRetry /\ WF_vars(NextRetry)

\* Vocabulary of the retry claims.
WrapperLeft == wrapper.pc \in {"returned", "raised"}

BoundedAttempts ==
    LET n == Len(wrapper.calls)
        max == retry_args.max_attempts
    IN  /\ n <= max
        /\ WrapperLeft => n >= 1
        \* no call follows a call that returned or raised outside `retryable`
        /\ \A k \in 1..(n - 1) : wrapper.calls[k] \in Retryable
        /\ wrapper.pc = "returned" <=> (n >= 1 /\ wrapper.calls[n] = NoExc)
        \* a retryable exception leaves the wrapper from the last attempt only,
        \* and it is the one of the last call
        /\ wrapper.pc = "raised" => wrapper.exc = wrapper.calls[n]
        /\ (wrapper.pc = "raised" /\ wrapper.exc \in Retryable) => n = max
        /\ (n = max /\ \A k \in 1..n : wrapper.calls[k] \in Retryable) =>
              wrapper.pc = "raised"
        \* one sleep between two consecutive attempts, none after the last
        /\ Len(wrapper.sleeps) = IF wrapper.pc = "loop" THEN n ELSE n - 1

\* C24: for max_attempts >= 1 the wrapper calls the wrapped function at least
\* once and at most max_attempts times, returns the value of the first call
\* that succeeds without calling again, re-raises the last exception when all
\* max_attempts calls raise a retryable exception, sleeps exactly once between
\* two consecutive attempts and never after the last, and always terminates
\* when the wrapped function does.
C24_BoundedAttemptsTerminate ==
    /\ [](retry_args.max_attempts >= 1 => BoundedAttempts)
    /\ <>WrapperLeft

\* Every attempt raised a retryable exception; the last one is re-raised after
\* a sleep before each but the first attempt.
C24_Witness ==
    /\ retry_args.max_attempts = MaxAttempts
    /\ wrapper.pc = "raised"
    /\ Len(wrapper.calls) = MaxAttempts
    /\ wrapper.exc = "RequestException"
    /\ Len(wrapper.sleeps) = MaxAttempts - 1

\* min(base_delay * backoff_factor^(k-1), max_delay)
NominalDelay(k) ==
    Min(retry_args.base_delay * Power(retry_args.backoff_factor, k - 1),
        retry_args.max_delay)

ExactWithoutJitter ==
    ~retry_args.jitter =>
        \A k \in 1..Len(wrapper.sleeps) : wrapper.sleeps[k] = NominalDelay(k)

NotRetryablePropagates ==
    (wrapper.calls # <<>> /\ wrapper.calls[1] \notin Retryable \cup {NoExc}) =>
        /\ wrapper.pc = "raised"
        /\ wrapper.exc = wrapper.calls[1]
        /\ Len(wrapper.calls) = 1
        /\ wrapper.sleeps = <<>>

\* C30: the sleep before retry number k (k >= 1) never exceeds max_delay, with
\* jitter on or off; without jitter it equals
\* min(base_delay * backoff_factor^(k-1), max_delay); an exception whose type
\* is not in `retryable` propagates from the first call with no sleep and no
\* further attempt.
C30_SleepNeverExceedsMaxDelay ==
    /\ \A k \in 1..Len(wrapper.sleeps) : wrapper.sleeps[k] <= retry_args.max_delay
    /\ ExactWithoutJitter
    /\ NotRetryablePropagates

\* What does hold: with jitter the sleep stays below one and a half times the
\* capped delay, and so below 1.5 * max_delay.
C30_SleepBelowJitteredCap ==
    /\ \A k \in 1..Len(wrapper.sleeps) :
          /\ 2 * wrapper.sleeps[k] < 3 * NominalDelay(k)
          /\ 2 * wrapper.sleeps[k] >= NominalDelay(k)
    /\ ExactWithoutJitter
    /\ NotRetryablePropagates

(***************************************************************************)
(* _expand_skills on compound skills                                       *)
(***************************************************************************)

CompoundSkillLists ==
    {<<>>, <<"Python">>, <<"machine learning">>, <<"Machine Learning", "learning">>,
     <<"data-driven analytics">>, <<"CI/CD Pipelines">>, <<"AWS cloud">>,
     <<"Python, Django">>, <<"Kubernetes", "kubernetes">>}

InitSkill ==
    /\ job \in [id : {"j"}, title : {"ML Engineer", "Data Analyst"},
                description : {"", "machine learning and analytics", "Python pipelines",
                               "cloud"},
                location : {"Pune"}]
    /\ profile \in [skills : CompoundSkillLists, level : {"senior"},
                    core_roles : {<<>>, <<"ML Engineer">>}, stretch_roles : {<<>>},
                    locations : {<<"Pune">>}, salary_lpa : {NoSalary}]
    /\ sj = NotScored
    /\ jobs = <<>>
    /\ min_score = 0
    /\ scored = <<>>
    /\ ranked = <<>>
    /\ pc = "call"
    /\ OthersIdleForScorer

SpecSkill == InitSkill /\ [][Next]_vars

\* Vocabulary of the claim: the sub-tokens of a skill, split on whitespace
\* and hyphens.
RECURSIVE HyphensAsSpaces(_)
HyphensAsSpaces(s) ==
    IF s = "" THEN ""
    ELSE (IF Char(s, 1) = "-" THEN " " ELSE Char(s, 1)) \o HyphensAsSpaces(SubSeq(s, 2, Len(s)))

SubTokens(skill) == SplitWords(HyphensAsSpaces(Lower(skill)))

ExpectedTokens(raw_skills) ==
    UNION {{Lower(raw_skills[k])}
           \cup {t \in SubTokens(raw_skills[k]) : Len(t) >= 4} : k \in DOMAIN raw_skills}

NoRepeats(xs) == \A x, y \in 1..Len(xs) : x # y => xs[x] # xs[y]

\* C25: _expand_skills returns, for every profile skill, the lower-cased
\* skill itself plus each of its whitespace- or hyphen-separated sub-tokens
\* of length >= 4, without duplicates and without any shorter sub-token; a
\* skill of two space-separated words of 4 or more letters expands to three
\* tokens.
C25_SkillsExpandToSubTokens ==
    Returned =>
        LET tokens == _expand_skills(profile.skills)
        IN  /\ Range(tokens) = ExpectedTokens(profile.skills)
            /\ NoRepeats(tokens)
            /\ profile.skills = <<"machine learning">> => Len(tokens) = 3

\* What does hold: the lower-cased skills are among the tokens, no token is
\* repeated, and every other token is a part of a skill of 4 characters or
\* more that is bounded by characters other than letters, digits, blanks and
\* hyphens; a skill of words joined by blanks or hyphens stays one token.
C25_SkillsExpandToSeparatedParts ==
    Returned =>
        LET tokens == _expand_skills(profile.skills)
            lows   == {Lower(profile.skills[k]) : k \in DOMAIN profile.skills}
        IN  /\ lows \subseteq Range(tokens)
            /\ NoRepeats(tokens)
            /\ \A t \in Range(tokens) \ lows :
                  /\ Len(t) >= 4
                  /\ \E low \in lows : Contains(low, t)
            /\ profile.skills \in {<<"machine learning">>, <<"data-driven analytics">>}
                  => Len(tokens) = 1

(***************************************************************************)
(* Location aliases: profiles and jobs located by every member of a group  *)
(***************************************************************************)

AliasProfileLocations ==
    {<<"Bangalore">>, <<"Bengaluru">>, <<"bengalore">>, <<"Gurgaon">>, <<"Gurugram">>,
     <<"Remote">>, <<"Anywhere">>, <<"Work from home">>, <<"WFH">>}

AliasJobLocations ==
    {"Bangalore, India", "Bengaluru", "Gurgaon", "Gurugram, Haryana", "Remote",
     "Anywhere", "Work From Home", "WFH - India", "Pune"}

InitLocation ==
    /\ job \in [id : {"j"}, title : {"SRE", "Accountant"}, description : {""},
                location : AliasJobLocations]
    /\ profile \in [skills : {<<>>}, level : {"senior"}, core_roles : {<<>>, <<"SRE">>},
                    stretch_roles : {<<>>}, locations : AliasProfileLocations,
                    salary_lpa : {NoSalary}]
    /\ sj = NotScored
    /\ jobs = <<>>
    /\ min_score = 0
    /\ scored = <<>>
    /\ ranked = <<>>
    /\ pc = "call"
    /\ OthersIdleForScorer

SpecLocation == InitLocation /\ [][Next]_vars

\* Vocabulary of the claim.
AliasGroups == {Range(LOCATION_ALIASES[key]) : key \in DOMAIN LOCATION_ALIASES}

\* A profile location and the job's location field name members of one group.
SameAliasGroup(j, p) ==
    \E g \in AliasGroups, k \in DOMAIN p.locations :
        /\ Strip(Lower(p.locations[k])) \in g
        /\ \E member \in g : Contains(_normalize(j.location), member)

LocationMatched(s) ==
    /\ \E k \in DOMAIN s.match_reasons : s.match_reasons[k] = "Location match"
    /\ s.score >= 15

\* C26: if a profile location is any member of a group of the alias table,
\* a job whose location field contains any member of the same group gets the
\* 'Location match' reason and the flat 0.15 contribution.
C26_AliasGroupSymmetric ==
    (Returned /\ SameAliasGroup(job, profile)) => LocationMatched(sj)

\* What does hold: a profile location that is the key of its group matches
\* every member of the group; any other member matches only itself.
C26_AliasKeyMatchesGroup ==
    Returned =>
        /\ (SameAliasGroup(job, profile)
            /\ \E k \in DOMAIN profile.locations :
                  Strip(Lower(profile.locations[k])) \in DOMAIN LOCATION_ALIASES)
              => LocationMatched(sj)
        /\ (\A k \in DOMAIN profile.locations :
               LET key == Strip(Lower(profile.locations[k]))
               IN  key \notin DOMAIN LOCATION_ALIASES
                   /\ ~Contains(_normalize(job.location), key))
              => ~LocationMatched(sj)

(***************************************************************************)
(* C27, C28: what a run does to jobs that are tracked or applied to        *)
(***************************************************************************)

ScoredIds == {run.scored[k].job.id : k \in DOMAIN run.scored}

HasRow(id, status) ==
    \E k \in DOMAIN tracker : tracker[k].job_id = id /\ tracker[k].status = status

PastSearch == run.pc \in {"letters", "report", "returned"} /\ run.constructed

PastApply == run.pc \in {"report", "returned"} /\ run.constructed

\* C27: every job for which apply_via_browser reports success in a run ends
\* that run with a tracker row of status 'applied', so its id is in
\* get_applied_job_ids() at the start of every later run and the job is never
\* scored or submitted again, for every value of top_letters and
\* generate_letters.
C27_NoRepeatedApplication ==
    /\ PastApply => \A id \in run.applied_job_ids : HasRow(id, "applied")
    /\ run.pc = "letters" => succeeded \cap ScoredIds = {}

\* What does hold: a job with a tracker row is never scored again, and a
\* successful application of a job that has a row (one written with its cover
\* letter in this run) sets the row to 'applied'.
C27_TrackedNeverScoredAgain ==
    /\ PastApply =>
          \A id \in run.applied_job_ids \cap run.cover_paths : HasRow(id, "applied")
    /\ PastSearch => TrackedIds(run.tracked) \cap ScoredIds = {}
    /\ run.pc = "letters" =>
          \A id \in succeeded \cap ScoredIds : id \notin TrackedIds(run.tracked)

\* The rows the run has appended to the tracker.
AppendedRows == SubSeq(tracker, Len(run.tracked) + 1, Len(tracker))

\* C28: in a run not interleaved with another, a job whose id is in the
\* tracker when the run starts is never scored, gets no cover letter and no
\* new row; the run appends at most one 'suggested' row per job id, only for
\* jobs among the first top_letters entries of the ranked list; every job
\* submitted to auto-apply has a score >= the list threshold and
\* >= min_score_auto_apply.
C28_TrackedJobsLeftAlone ==
    PastSearch =>
        LET tracked  == TrackedIds(run.tracked)
            appended == AppendedRows
            top      == Slice(run.scored, run.args.top_letters)
        IN  /\ tracked \cap ScoredIds = {}
            /\ tracked \cap run.cover_paths = {}
            /\ Len(tracker) >= Len(run.tracked)
            /\ \A k \in DOMAIN run.tracked : tracker[k].job_id = run.tracked[k].job_id
            /\ \A k \in DOMAIN appended :
                  /\ appended[k].job_id \notin tracked
                  /\ appended[k].job_id \in {top[m].job.id : m \in DOMAIN top}
                  /\ appended[k].status \in {"suggested", "applied"}
                  /\ \A m \in DOMAIN appended : m # k => appended[m].job_id # appended[k].job_id
            /\ \A k \in DOMAIN run.to_apply :
                  /\ run.to_apply[k].score >= list_min(run.args)
                  /\ run.to_apply[k].score >= auto_apply_min(run.profile)

\* A run that finds a tracked job and a new one: the new one gets its row and
\* is submitted, the tracked one is left alone.
C28_Witness ==
    /\ run.pc = "returned" /\ run.constructed
    /\ TrackedIds(run.tracked) = {"a"}
    /\ Len(run.all_jobs) = 2
    /\ ScoredIds = {"b"}
    /\ Len(AppendedRows) = 1
    /\ Len(run.to_apply) = 1

(***************************************************************************)
(* C29: what a reader of the tracker sees                                   *)
(***************************************************************************)

ReadFinished(p) == proc[p].op = "get_applications" /\ proc[p].pc = "done"

RowsRead(p) == {proc[p].rows[k].job_id : k \in DOMAIN proc[p].rows}

\* C29: while record_application and update_status run in other processes,
\* every get_applications call returns a list holding all rows that were
\* completely written before the read began, never an empty or truncated
\* view of a file that already held rows.
C29_ReaderSeesWrittenRows ==
    \A p \in Procs : ReadFinished(p) => proc[p].before \subseteq RowsRead(p)

\* A process passed line 96 of update_status: it emptied the file to rewrite it.
Rewrites(q) ==
    proc[q].op = "update_status" /\ proc[q].pc \in {"lock", "write", "unlock", "close", "done"}
    /\ proc[q].returned # "False"

\* What does hold: beside appends only, the reader sees every row written
\* before its read.
C29_ReaderSeesRowsBesideAppends ==
    \A p \in Procs :
        (ReadFinished(p) /\ \A q \in Procs : ~Rewrites(q)) =>
            proc[p].before \subseteq RowsRead(p)

====
